---- MODULE Spec2Model ----
(***************************************************************************)
(* PromptPilot: prompt version control (versionStorage in                  *)
(* src/src/lib/storage.ts) over the browser's localStorage, and its        *)
(* reconciliation with the remote store reached through                    *)
(* SupabasePromptService (src/unnamed/part_004) whose tables and triggers  *)
(* are those of src/complete-supabase-schema.sql.                          *)
(*                                                                         *)
(* One JavaScript job (a synchronous handler, or the code between two      *)
(* awaits) is one action.  A remote call is a task whose statements on the *)
(* server and whose completion on the client are separate steps.           *)
(***************************************************************************)
EXTENDS Integers, Sequences, FiniteSets, TLC

VARIABLES
  configured,   \* isSupabaseConfigured(): both environment variables are set
  storage,      \* window.localStorage[PROMPT_GROUPS], as the parsed JSON value
  nextId,       \* the next identifier generateId() or the remote store hands out
  rGroups,      \* the remote table prompt_groups
  rVersions,    \* the remote table prompt_versions
  pulls,        \* syncFromSupabase calls in flight
  passes,       \* syncToSupabase passes: the groups array each closed over, and
                \* its remote calls in flight
  detached,     \* remote calls whose result nothing waits for
  users,        \* createPromptGroup / deleteGroup calls suspended at their await
  last,         \* the operation that ran last, its arguments and its result
                \* (of a deleteVersion that succeeded: the status and the
                \* number the version had, and its group)
  hist,         \* for each group createPromptGroup returned, the addVersion calls
                \* that succeeded on it; a group leaves when one of its versions
                \* is deleted, when it is deleted, or when a pull replaces the cache
  returned,     \* the mutation that returned last, its arguments and its result
  memory,       \* a groups array a caller holds in memory (the save and load
                \* round trip of SpecStore)
  quota         \* what the user may still do in this behaviour

vars == <<configured, storage, nextId, rGroups, rVersions, pulls, passes,
          detached, users, last, hist, returned, memory, quota>>

remote == <<rGroups, rVersions>>

----
\* Bounds of the model.

\* identifiers handed out in one behaviour (generateId and remote uuids)
MaxIds == 4

\* identifiers handed out in one behaviour that starts from a cache and a
\* remote store which hold a group already
MaxWarmIds == 3

\* mutations a user starts in one behaviour while the remote store is
\* configured (each starts remote calls)
MaxOps == 3

\* updateGroup / updateVersion calls in one behaviour
MaxRenames == 1

\* calls that pass the empty prompt text in one behaviour
MaxEmpty == 1

\* pulls in flight at a time; one started beyond that is a pull whose fetch fails
MaxPulls == 1

\* other remote calls in flight at a time; one issued beyond that is a call
\* that fails
MaxCalls == 2
MaxReliableIds == 3
MaxReliableOps == 2
MaxPushIds == 5
MaxPushOps == 1
MaxRacedIds == 3
MaxRacedOps == 2
MaxReadIds == 3
MaxReadOps == 1

\* undefined / null / '' for an identifier
NoId == 0

\* Math.max() of no arguments, plus one (-Infinity); JSON stores it as null
NegInfinity == -1

Statuses == {"draft", "current", "production"}

\* prompt texts a caller passes: the empty text and a non-empty one
Contents == {"", "p"}

\* the name a caller gives a version in updateVersion
VersionNames == {"r"}

----
\* Sequence helpers.

Range(s) == {s[i] : i \in DOMAIN s}

\* s without its i-th element (splice(i, 1))
RemoveAt(s, i) == [j \in 1 .. (Len(s) - 1) |-> IF j < i THEN s[j] ELSE s[j + 1]]

\* new Set(array): the members in order of first occurrence
RECURSIVE Dedupe(_)
Dedupe(s) ==
  IF s = <<>> THEN <<>>
  ELSE LET front == Dedupe(SubSeq(s, 1, Len(s) - 1))
           x == s[Len(s)]
       IN IF x \in Range(front) THEN front ELSE Append(front, x)

----
\* The data model (storage.ts 41-78).  A group's _syncedVersionIds is
\*   absent  the field is undefined
\*   set     a JavaScript Set (in memory only), its members in insertion order
\*   array   a plain array (what JSON holds)
\*   object  the {} JSON.stringify makes of a Set

Absent == [kind |-> "absent", ids |-> <<>>]

NewSet == [kind |-> "set", ids |-> <<>>]

PromptVersion(id, promptId, version, name, content, status) ==
  [id |-> id, promptId |-> promptId, version |-> version, name |-> name,
   content |-> content, status |-> status]

\* `v${n}.0`
DefaultVersionName(n) ==
  CASE n = 1 -> "v1.0"
    [] n = 2 -> "v2.0"
    [] n = 3 -> "v3.0"
    [] n = 4 -> "v4.0"
    [] n = NegInfinity -> "v-Infinity.0"
    [] OTHER -> "vN.0"

\* `${name} v1`, the name createGroup gives the initial row (part_004 151)
InitialVersionName(name) ==
  CASE name = "G" -> "G v1"
    [] name = "H" -> "H v1"
    [] OTHER -> " v1"

----
\* localStorage (storage.ts 135-171).

\* JSON.stringify then JSON.parse of one group: a Set becomes {}, and a
\* version number -Infinity becomes null, which later arithmetic reads as 0
JsonOfVersion(v) == [v EXCEPT !.version = IF @ = NegInfinity THEN 0 ELSE @]

JsonOfGroup(g) ==
  [g EXCEPT !.synced = IF @.kind = "set" THEN [kind |-> "object", ids |-> <<>>] ELSE @,
            !.versions = [i \in DOMAIN @ |-> JsonOfVersion(@[i])]]

\* the group as localStorage.set prepares it: Array.from on a Set
Serializable(g) ==
  IF g.synced.kind = "set"
    THEN [g EXCEPT !.synced = [kind |-> "array", ids |-> @.ids]]
    ELSE g

\* a save that hands the groups to JSON.stringify as they are
LocalStorageSetPlain(groups) ==
  [i \in DOMAIN groups |-> JsonOfGroup(groups[i])]

\* localStorage.set(PROMPT_GROUPS, groups): the value stored
LocalStorageSet(groups) ==
  [i \in DOMAIN groups |-> JsonOfGroup(Serializable(groups[i]))]

\* the restoring loop of getAllGroups over one group
Rehydrate(g) ==
  IF g.synced.kind = "array"
    THEN [g EXCEPT !.synced = [kind |-> "set", ids |-> Dedupe(@.ids)]]
  ELSE IF g.synced.kind = "absent"
    THEN [g EXCEPT !.synced = NewSet]
  ELSE g

\* getAllGroups(): the groups it returns (the pull it starts is in StartPull)
GetAllGroups(stored) == [i \in DOMAIN stored |-> Rehydrate(stored[i])]

\* group._syncedVersionIds has / includes versionId (storage.ts 519-521)
IsSynced(g, versionId) ==
  /\ g.synced.kind \in {"set", "array"}
  /\ versionId \in Range(g.synced.ids)

----
\* Reads (storage.ts 561-581).

\* groups.findIndex(g => g.id === groupId), 1-based; 0 for -1
GroupIndexOf(groups, groupId) ==
  IF \E i \in DOMAIN groups : groups[i].id = groupId
    THEN CHOOSE i \in DOMAIN groups :
           /\ groups[i].id = groupId
           /\ \A j \in 1 .. (i - 1) : groups[j].id # groupId
    ELSE 0

\* group.versions.findIndex(v => v.id === versionId), 1-based; 0 for -1
VersionIndexOf(g, versionId) ==
  IF \E i \in DOMAIN g.versions : g.versions[i].id = versionId
    THEN CHOOSE i \in DOMAIN g.versions :
           /\ g.versions[i].id = versionId
           /\ \A j \in 1 .. (i - 1) : g.versions[j].id # versionId
    ELSE 0

\* the first group that holds versionId (the scanning loops of storage.ts
\* 588-592, 630-634, 746-750), 0 when none does
OwnerIndexOf(groups, versionId) ==
  IF \E i \in DOMAIN groups : VersionIndexOf(groups[i], versionId) # 0
    THEN CHOOSE i \in DOMAIN groups :
           /\ VersionIndexOf(groups[i], versionId) # 0
           /\ \A j \in 1 .. (i - 1) : VersionIndexOf(groups[j], versionId) = 0
    ELSE 0

HasGroup(groups, groupId) == GroupIndexOf(groups, groupId) # 0

\* getGroupById(groupId), for a group that exists
GetGroupById(stored, groupId) ==
  GetAllGroups(stored)[GroupIndexOf(GetAllGroups(stored), groupId)]

CountStatus(g, status) ==
  Cardinality({i \in DOMAIN g.versions : g.versions[i].status = status})

VersionNumbers(g) == [i \in DOMAIN g.versions |-> g.versions[i].version]

----
\* The pure part of each mutation, on one group.

\* Math.max(...group.versions.map(v => v.version)) + 1 (storage.ts 377)
NextVersionNumber(g) ==
  IF g.versions = <<>>
    THEN NegInfinity
    ELSE (CHOOSE m \in Range(VersionNumbers(g)) :
            \A n \in Range(VersionNumbers(g)) : n <= m) + 1

\* a demotion that demotes nothing
DemoteNone(versions) == versions

\* forEach(v => { if (v.status === 'current') v.status = 'draft' }) (395-397)
DemoteCurrent(versions) ==
  [i \in DOMAIN versions |->
     IF versions[i].status = "current"
       THEN [versions[i] EXCEPT !.status = "draft"]
       ELSE versions[i]]

\* an addVersion that appends the new version and demotes no other
AddVersionKeeping(g, versionId, content, status) ==
  LET n == NextVersionNumber(g)
      newVersion == PromptVersion(versionId, g.id, n, DefaultVersionName(n), content,
                                  IF status = "none" THEN "draft" ELSE status)
  IN IF newVersion.status = "current"
       THEN [g EXCEPT !.versions = Append(@, newVersion),
                      !.currentVersionId = versionId]
       ELSE [g EXCEPT !.versions = Append(@, newVersion)]

\* addVersion's change of the group (storage.ts 376-402); status is
\* options.status, "none" when the caller gives none
AddVersionToGroup(g, versionId, content, status) ==
  LET n == NextVersionNumber(g)
      newVersion == PromptVersion(versionId, g.id, n, DefaultVersionName(n), content,
                                  IF status = "none" THEN "draft" ELSE status)
  IN IF newVersion.status = "current"
       THEN [g EXCEPT !.versions = Append(DemoteCurrent(@), newVersion),
                      !.currentVersionId = versionId]
       ELSE [g EXCEPT !.versions = Append(@, newVersion)]

\* a setVersionStatus that leaves the other versions as they are
SetStatusKeeping(g, versionIndex, status) ==
  LET versionId == g.versions[versionIndex].id
  IN [g EXCEPT
        !.versions[versionIndex].status = status,
        !.currentVersionId = IF status = "current" THEN versionId ELSE @,
        !.productionVersionId = IF status = "production" THEN versionId ELSE @]

\* setVersionStatus's change of the group (storage.ts 593-610)
\* a setVersionStatus that clears the production pointer of a version it
\* makes a draft
SetStatusUnpointing(g, versionIndex, status) ==
  LET versionId == g.versions[versionIndex].id
      cleared == [i \in DOMAIN g.versions |->
                    IF /\ status \in {"current", "production"}
                       /\ i # versionIndex
                       /\ g.versions[i].status = status
                      THEN [g.versions[i] EXCEPT !.status = "draft"]
                      ELSE g.versions[i]]
  IN [g EXCEPT
        !.versions = [cleared EXCEPT ![versionIndex].status = status],
        !.currentVersionId = IF status = "current" THEN versionId ELSE @,
        !.productionVersionId =
          IF status = "production" THEN versionId
          ELSE IF status = "draft" /\ @ = versionId THEN NoId
          ELSE @]

\* a setVersionStatus under which a group has one marked version at a time:
\* current and production both demote every other marked version
SetStatusExclusive(g, versionIndex, status) ==
  LET versionId == g.versions[versionIndex].id
      cleared == [i \in DOMAIN g.versions |->
                    IF /\ status \in {"current", "production"}
                       /\ i # versionIndex
                       /\ g.versions[i].status \in {"current", "production"}
                      THEN [g.versions[i] EXCEPT !.status = "draft"]
                      ELSE g.versions[i]]
  IN [g EXCEPT
        !.versions = [cleared EXCEPT ![versionIndex].status = status],
        !.currentVersionId = IF status = "current" THEN versionId ELSE @,
        !.productionVersionId = IF status = "production" THEN versionId ELSE @]

SetStatusInGroup(g, versionIndex, status) ==
  LET versionId == g.versions[versionIndex].id
      cleared == [i \in DOMAIN g.versions |->
                    IF /\ status \in {"current", "production"}
                       /\ i # versionIndex
                       /\ g.versions[i].status = status
                      THEN [g.versions[i] EXCEPT !.status = "draft"]
                      ELSE g.versions[i]]
  IN [g EXCEPT
        !.versions = [cleared EXCEPT ![versionIndex].status = status],
        !.currentVersionId = IF status = "current" THEN versionId ELSE @,
        !.productionVersionId = IF status = "production" THEN versionId ELSE @]

\* the remaining version that comes first in the array, whatever its number
FirstRemainingIndex(versions, versionIndex) ==
  CHOOSE i \in DOMAIN versions \ {versionIndex} :
    \A j \in DOMAIN versions \ {versionIndex} : i <= j

\* remainingVersions.sort((a, b) => b.version - a.version)[0] (storage.ts
\* 644-645): the index in versions of the remaining version with the highest
\* number, the first of them in array order (the sort is stable)
LatestRemainingIndex(versions, versionIndex) ==
  CHOOSE i \in DOMAIN versions \ {versionIndex} :
    \A j \in DOMAIN versions \ {versionIndex} :
      \/ versions[j].version < versions[i].version
      \/ versions[j].version = versions[i].version /\ i <= j

\* a deleteVersion that treats production as it treats current: the latest
\* remaining version takes the status over
DeleteVersionPromoting(g, versionIndex) ==
  LET versionToDelete == g.versions[versionIndex]
      latest == LatestRemainingIndex(g.versions, versionIndex)
      promoted == IF versionToDelete.status \in {"current", "production"}
                       /\ Len(g.versions) > 1
                    THEN IF versionToDelete.status = "current"
                           THEN [g EXCEPT !.versions[latest].status = "current",
                                          !.currentVersionId = g.versions[latest].id]
                           ELSE [g EXCEPT !.versions[latest].status = "production",
                                          !.productionVersionId = g.versions[latest].id]
                    ELSE g
  IN [promoted EXCEPT !.versions = RemoveAt(@, versionIndex)]

\* deleteVersion's change of the group (storage.ts 640-658); latestVersion is
\* undefined, and nothing is promoted, when no version remains
DeleteVersionFromGroup(g, versionIndex) ==
  LET versionToDelete == g.versions[versionIndex]
      latest == LatestRemainingIndex(g.versions, versionIndex)
      promoted == IF versionToDelete.status = "current" /\ Len(g.versions) > 1
                    THEN [g EXCEPT !.versions[latest].status = "current",
                                   !.currentVersionId = g.versions[latest].id]
                    ELSE g
      unpointed == IF versionToDelete.status = "production"
                     THEN [promoted EXCEPT !.productionVersionId = NoId]
                     ELSE promoted
  IN [unpointed EXCEPT !.versions = RemoveAt(@, versionIndex)]

\* a local path whose first version is a draft
LocalGroupDraft(groupId, versionId, name, content) ==
  [id |-> groupId, name |-> name, currentVersionId |-> versionId,
   productionVersionId |-> NoId,
   versions |-> <<PromptVersion(versionId, groupId, 1, "v1.0", content, "draft")>>,
   supabase_id |-> NoId, synced |-> Absent]

\* the group createPromptGroup builds on its local path (storage.ts 324-347)
LocalGroup(groupId, versionId, name, content) ==
  [id |-> groupId, name |-> name, currentVersionId |-> versionId,
   productionVersionId |-> NoId,
   versions |-> <<PromptVersion(versionId, groupId, 1, "v1.0", content, "current")>>,
   supabase_id |-> NoId, synced |-> Absent]

----
\* The remote store: the tables prompt_groups and prompt_versions of
\* complete-supabase-schema.sql, each a sequence in order of created_at.

RemoteGroup(id, name, description) ==
  [id |-> id, name |-> name, description |-> description]

RemoteVersion(id, group_id, name, content, status, version_number) ==
  [id |-> id, group_id |-> group_id, name |-> name, content |-> content,
   status |-> status, version_number |-> version_number]

\* the rows in the order .order('created_at', { ascending: false }) gives
Descending(rows) == [i \in DOMAIN rows |-> rows[Len(rows) + 1 - i]]

RowsOfGroup(versions, groupId) ==
  LET Test(v) == v.group_id = groupId IN SelectSeq(versions, Test)

HasRow(rows, id) == \E i \in DOMAIN rows : rows[i].id = id

\* SELECT COALESCE(MAX(version_number), 0) over the group's rows
MaxVersionNumber(versions, groupId) ==
  LET nums == {versions[i].version_number :
                 i \in {j \in DOMAIN versions : versions[j].group_id = groupId}}
  IN IF nums = {} THEN 0 ELSE CHOOSE m \in nums : \A n \in nums : n <= m

\* trigger enforce_single_status (schema 123-136): a row written with status
\* current or production sends the group's other rows of that status to draft
EnforceSingleStatus(versions, groupId, id, status) ==
  [i \in DOMAIN versions |->
     IF /\ status \in {"current", "production"}
        /\ versions[i].group_id = groupId
        /\ versions[i].id # id
        /\ versions[i].status = status
       THEN [versions[i] EXCEPT !.status = "draft"]
       ELSE versions[i]]

\* trigger set_version_number (schema 109-120)
SetVersionNumber(versions, groupId, requested) ==
  IF requested = 1 THEN MaxVersionNumber(versions, groupId) + 1 ELSE requested

\* whether INSERT INTO prompt_versions passes the table's constraints
\* (schema 46, 64): the group exists and the content is not empty
VersionInsertable(groups, groupId, content) ==
  HasRow(groups, groupId) /\ content # ""

\* INSERT INTO prompt_versions with its BEFORE INSERT triggers
InsertVersionRow(versions, id, groupId, name, content, status, requested) ==
  Append(EnforceSingleStatus(versions, groupId, id, status),
         RemoteVersion(id, groupId, name, content, status,
                       SetVersionNumber(versions, groupId, requested)))

\* UPDATE prompt_versions SET status = 'draft' WHERE group_id = g AND id != v
\* (part_004 266-270); the trigger has nothing to do for draft
ClearOtherRows(versions, groupId, id) ==
  [i \in DOMAIN versions |->
     IF versions[i].group_id = groupId /\ versions[i].id # id
       THEN [versions[i] EXCEPT !.status = "draft"]
       ELSE versions[i]]

\* UPDATE prompt_versions SET status = s WHERE id = v (part_004 274-277),
\* with the BEFORE UPDATE trigger
UpdateRowStatus(versions, id, status) ==
  LET at == CHOOSE i \in DOMAIN versions : versions[i].id = id
  IN IF ~HasRow(versions, id) THEN versions
     ELSE [EnforceSingleStatus(versions, versions[at].group_id, id, status)
             EXCEPT ![at].status = status]

\* UPDATE ... SET name = n WHERE id = x, on either table (part_004 292-295,
\* 352-355)
UpdateRowName(rows, id, name) ==
  [i \in DOMAIN rows |-> IF rows[i].id = id THEN [rows[i] EXCEPT !.name = name] ELSE rows[i]]

\* DELETE FROM prompt_versions WHERE group_id = g (part_004 329-332)
DeleteRowsOfGroup(versions, groupId) ==
  LET Test(v) == v.group_id # groupId IN SelectSeq(versions, Test)

\* DELETE FROM prompt_groups WHERE id = g (part_004 335-338)
DeleteGroupRow(groups, groupId) ==
  LET Test(g) == g.id # groupId IN SelectSeq(groups, Test)

----
\* SupabasePromptService.convertGroupToLocal (part_004 39-69).

\* versions.map((v, index) => ...): the number is the place in the array
ConvertedVersions(rows) ==
  [i \in DOMAIN rows |->
     PromptVersion(rows[i].id, rows[i].group_id, i, rows[i].name, rows[i].content,
                   rows[i].status)]

\* convertedVersions.find(v => v.status === status)?.id
FirstWithStatus(versions, status) ==
  IF \E i \in DOMAIN versions : versions[i].status = status
    THEN versions[CHOOSE i \in DOMAIN versions :
                    /\ versions[i].status = status
                    /\ \A j \in 1 .. (i - 1) : versions[j].status # status].id
    ELSE NoId

\* a conversion that points at the newest version without looking at statuses
ConvertGroupToLocalNewest(supabaseGroup, rows) ==
  LET convertedVersions == ConvertedVersions(rows)
  IN [id |-> supabaseGroup.id, name |-> supabaseGroup.name,
      currentVersionId |->
        IF convertedVersions # <<>> THEN convertedVersions[1].id ELSE NoId,
      productionVersionId |-> NoId,
      versions |-> convertedVersions,
      supabase_id |-> supabaseGroup.id,
      synced |-> Absent]

ConvertGroupToLocal(supabaseGroup, rows) ==
  LET convertedVersions == ConvertedVersions(rows)
      current == FirstWithStatus(convertedVersions, "current")
      production == FirstWithStatus(convertedVersions, "production")
  IN [id |-> supabaseGroup.id, name |-> supabaseGroup.name,
      currentVersionId |->
        IF current # NoId THEN current
        ELSE IF production # NoId THEN production
        ELSE IF convertedVersions # <<>> THEN convertedVersions[1].id
        ELSE NoId,
      productionVersionId |-> production,
      versions |-> convertedVersions,
      supabase_id |-> supabaseGroup.id,
      synced |-> Absent]

\* a getAllGroups that attaches no version row to the groups it returns
ConvertAllBare(groupRows, versionRows) ==
  [i \in DOMAIN groupRows |-> ConvertGroupToLocal(groupRows[i], <<>>)]

\* what SupabasePromptService.getAllGroups returns (part_004 91-103) for the
\* two selections it made, each newest first
ConvertAll(groupRows, versionRows) ==
  [i \in DOMAIN groupRows |->
     ConvertGroupToLocal(groupRows[i], RowsOfGroup(versionRows, groupRows[i].id))]

----
\* Remote calls in flight.

\* supabasePromptService.getAllGroups() in flight (storage.ts 438): pc is
\* "groups" before the first selection, "versions" before the second, "then"
\* when the converted result is on its way to the .then callback.  A pull that
\* setTimeout starts (storage.ts 308-311, 687-690) is in flight from the moment
\* the timer is set: the server reads at some later time in either case.
NewPull == [pc |-> "groups", groupRows |-> <<>>, result |-> <<>>]

\* syncFromSupabase(): the pulls in flight after it (storage.ts 434-451)
StartPull(ps) ==
  IF configured /\ Len(ps) < quota.pulls THEN Append(ps, NewPull) ELSE ps

\* a remote call of a push pass, on group gi (and version vi) of the pass's
\* groups array:
\*   createGroup  supabasePromptService.createGroup (storage.ts 464)
\*   addVersion   supabasePromptService.addVersion for an unsynced version (527)
\*   addExtra     supabasePromptService.addVersion for an additional version (479)
\* target is the remote group written to, rid the row the call created, num
\* the highest version_number the call read
Call(kind, gi, vi, target) ==
  [kind |-> kind, gi |-> gi, vi |-> vi, target |-> target,
   pc |-> IF kind = "createGroup" THEN "insertGroup" ELSE "selectMax",
   rid |-> NoId, num |-> 0]

RECURSIVE SumLen(_)
SumLen(ps) == IF ps = <<>> THEN 0 ELSE Len(Head(ps).calls) + SumLen(Tail(ps))

\* remote calls in flight, pulls apart
CallsInFlight(ps, ds, us) == SumLen(ps) + Len(ds) + Len(us)

\* the first n elements of s
Take(s, n) == SubSeq(s, 1, IF n < Len(s) THEN (IF n < 0 THEN 0 ELSE n) ELSE Len(s))

\* the calls syncToSupabase issues for one group (storage.ts 460-556)
GroupCalls(g, gi) ==
  IF g.supabase_id = NoId /\ g.versions # <<>>
    THEN <<Call("createGroup", gi, 1, NoId)>>
  ELSE IF g.supabase_id # NoId
    THEN LET Unsynced(i) == ~IsSynced(g, g.versions[i].id)
             todo == SelectSeq([i \in DOMAIN g.versions |-> i], Unsynced)
         IN [k \in DOMAIN todo |-> Call("addVersion", gi, todo[k], g.supabase_id)]
  ELSE <<>>

RECURSIVE CallsFrom(_, _)
CallsFrom(groups, gi) ==
  IF gi > Len(groups) THEN <<>>
  ELSE GroupCalls(groups[gi], gi) \o CallsFrom(groups, gi + 1)

\* the groups array as syncToSupabase leaves it at once (storage.ts 507-509)
PassGroups(groups) ==
  [i \in DOMAIN groups |->
     IF groups[i].supabase_id # NoId /\ groups[i].synced.kind = "absent"
       THEN [groups[i] EXCEPT !.synced = NewSet]
       ELSE groups[i]]

\* syncToSupabase(groups): the passes in flight after it (storage.ts 454-559)
StartPass(ps, ds, us, groups) ==
  LET calls == Take(CallsFrom(groups, 1), MaxCalls - CallsInFlight(ps, ds, us))
  IN IF configured /\ calls # <<>>
       THEN Append(ps, [groups |-> PassGroups(groups), calls |-> calls])
       ELSE ps

\* a fire-and-forget remote call: setVersionStatus (storage.ts 488, 549),
\* updateGroup (729), updateVersion (772)
Detached(kind, id, value) ==
  [kind |-> kind, id |-> id, value |-> value, target |-> NoId,
   pc |-> IF kind = "setStatus" THEN "select" ELSE "update"]

StartDetached(ps, ds, us, d) ==
  IF CallsInFlight(ps, ds, us) < MaxCalls THEN Append(ds, d) ELSE ds

\* what an operation leaves in last
Result(op, id, status, ok, ret, num) ==
  [op |-> op, id |-> id, status |-> status, ok |-> ok, ret |-> ret, num |-> num]

\* what a step of a remote call or a callback leaves in last
Background == Result("background", NoId, "none", FALSE, NoId, 0)

\* the mutations of versionStorage, as last names them when they return
Mutations ==
  {"createPromptGroup", "addVersion", "setVersionStatus", "deleteVersion",
   "deleteGroup", "updateGroup", "updateVersion"}

\* returned after a step: the result in last when the step is the return of a
\* mutation
Remembered == IF last'.op \in Mutations THEN last' ELSE returned

\* hist with groupId a group createPromptGroup has just returned
Tracked(h, groupId) ==
  [g \in DOMAIN h \cup {groupId} |-> IF g = groupId THEN 0 ELSE h[g]]

\* hist without groupId
Untracked(h, groupId) == [g \in DOMAIN h \ {groupId} |-> h[g]]

\* hist with one more addVersion that succeeded on groupId
Counted(h, groupId) ==
  IF groupId \in DOMAIN h THEN [h EXCEPT ![groupId] = @ + 1] ELSE h

----
\* The synchronous mutations of versionStorage.

\* addVersion(groupId, content, {status}) (storage.ts 360-411)
AddVersion(groupId, content, status) ==
  LET groups == GetAllGroups(storage)
      groupIndex == GroupIndexOf(groups, groupId)
      versionId == nextId
      group == AddVersionToGroup(groups[groupIndex], versionId, content, status)
      updated == [groups EXCEPT ![groupIndex] = group]
  IN /\ pulls' = StartPull(pulls)
     /\ IF groupIndex = 0
          THEN /\ last' = Result("addVersion", groupId, status, FALSE, NoId, 0)
               /\ UNCHANGED <<storage, nextId, passes, hist>>
          ELSE /\ nextId <= quota.lastId
               /\ nextId' = nextId + 1
               /\ storage' = LocalStorageSet(updated)
               /\ passes' = StartPass(passes, detached, users, updated)
               /\ last' = Result("addVersion", groupId, status, TRUE, versionId,
                                 group.versions[Len(group.versions)].version)
               /\ hist' = Counted(hist, groupId)
     /\ returned' = Remembered
     /\ UNCHANGED <<configured, memory, remote, detached, users>>

\* setVersionStatus(versionId, status) (storage.ts 584-623)
SetVersionStatus(versionId, status) ==
  LET groups == GetAllGroups(storage)
      i == OwnerIndexOf(groups, versionId)
      versionIndex == VersionIndexOf(groups[i], versionId)
      updated == [groups EXCEPT ![i] = SetStatusInGroup(@, versionIndex, status)]
  IN /\ pulls' = StartPull(pulls)
     /\ IF i = 0
          THEN /\ last' = Result("setVersionStatus", versionId, status, FALSE, NoId, 0)
               /\ UNCHANGED <<storage, passes>>
          ELSE /\ storage' = LocalStorageSet(updated)
               /\ passes' = StartPass(passes, detached, users, updated)
               /\ last' = Result("setVersionStatus", versionId, status, TRUE, NoId, 0)
     /\ returned' = Remembered
     /\ UNCHANGED <<configured, memory, hist, nextId, remote, detached, users>>

\* a guard that is one off: group.versions.length === 0
IsNoVersion(g) == Len(g.versions) = 0

\* group.versions.length === 1 (storage.ts 636)
IsOnlyVersion(g) == Len(g.versions) = 1

\* deleteVersion(versionId) (storage.ts 626-669)
DeleteVersion(versionId) ==
  LET groups == GetAllGroups(storage)
      i == OwnerIndexOf(groups, versionId)
      versionIndex == VersionIndexOf(groups[i], versionId)
      updated == [groups EXCEPT ![i] = DeleteVersionFromGroup(@, versionIndex)]
  IN /\ pulls' = StartPull(pulls)
     /\ IF i = 0 \/ IsOnlyVersion(groups[i])
          THEN /\ last' = Result("deleteVersion", versionId, "none", FALSE, NoId, 0)
               /\ UNCHANGED <<storage, hist>>
          ELSE /\ storage' = LocalStorageSet(updated)
               /\ last' = Result("deleteVersion", versionId,
                                 groups[i].versions[versionIndex].status, TRUE,
                                 groups[i].id,
                                 groups[i].versions[versionIndex].version)
               /\ hist' = Untracked(hist, groups[i].id)
     /\ returned' = Remembered
     /\ UNCHANGED <<configured, memory, nextId, remote, passes, detached, users>>

\* an updateGroup that saves the groups it read before it looks for the group
UpdateGroupSaving(groupId, name) ==
  LET groups == GetAllGroups(storage)
      groupIndex == GroupIndexOf(groups, groupId)
      supabase_id == groups[groupIndex].supabase_id
      updated == [groups EXCEPT ![groupIndex].name = name]
  IN /\ pulls' = StartPull(pulls)
     /\ IF groupIndex = 0
          THEN /\ last' = Result("updateGroup", groupId, name, FALSE, NoId, 0)
               /\ storage' = LocalStorageSet(groups)
               /\ UNCHANGED detached
          ELSE /\ storage' = LocalStorageSet(updated)
               /\ detached' =
                    IF configured /\ supabase_id # NoId
                      THEN StartDetached(passes, detached, users,
                                         Detached("updateGroup", supabase_id, name))
                      ELSE detached
               /\ last' = Result("updateGroup", groupId, name, TRUE, NoId, 0)
     /\ returned' = Remembered
     /\ UNCHANGED <<configured, memory, hist, nextId, remote, passes, users>>

\* updateGroup(groupId, {name}) (storage.ts 710-738)
UpdateGroup(groupId, name) ==
  LET groups == GetAllGroups(storage)
      groupIndex == GroupIndexOf(groups, groupId)
      supabase_id == groups[groupIndex].supabase_id
      updated == [groups EXCEPT ![groupIndex].name = name]
  IN /\ pulls' = StartPull(pulls)
     /\ IF groupIndex = 0
          THEN /\ last' = Result("updateGroup", groupId, name, FALSE, NoId, 0)
               /\ UNCHANGED <<storage, detached>>
          ELSE /\ storage' = LocalStorageSet(updated)
               /\ detached' =
                    IF configured /\ supabase_id # NoId
                      THEN StartDetached(passes, detached, users,
                                         Detached("updateGroup", supabase_id, name))
                      ELSE detached
               /\ last' = Result("updateGroup", groupId, name, TRUE, NoId, 0)
     /\ returned' = Remembered
     /\ UNCHANGED <<configured, memory, hist, nextId, remote, passes, users>>

\* updateVersion(versionId, {name}) (storage.ts 741-794)
UpdateVersion(versionId, name) ==
  LET groups == GetAllGroups(storage)
      i == OwnerIndexOf(groups, versionId)
      versionIndex == VersionIndexOf(groups[i], versionId)
      updated == [groups EXCEPT ![i].versions[versionIndex].name = name]
  IN /\ pulls' = StartPull(pulls)
     /\ IF i = 0
          THEN /\ last' = Result("updateVersion", versionId, name, FALSE, NoId, 0)
               /\ UNCHANGED <<storage, detached>>
          ELSE /\ storage' = LocalStorageSet(updated)
               /\ detached' =
                    IF configured
                      THEN StartDetached(passes, detached, users,
                                         Detached("updateVersion", versionId, name))
                      ELSE detached
               /\ last' = Result("updateVersion", versionId, name, TRUE, NoId, 0)
     /\ returned' = Remembered
     /\ UNCHANGED <<configured, memory, hist, nextId, remote, passes, users>>

----
\* createPromptGroup and deleteGroup: asynchronous, suspended at one await.

\* a suspended call: op, its arguments, and the remote call it awaits.  pc is
\* the remote call's next statement, "resume" when its result is on its way
\* back; ok is that result's success, rid and vid the rows createGroup made
UserCall(op, groupId, name, content) ==
  [op |-> op, groupId |-> groupId, name |-> name, content |-> content,
   pc |-> IF op = "createPromptGroup" THEN "insertGroup" ELSE "deleteVersions",
   ok |-> FALSE, rid |-> NoId, vid |-> NoId]

\* createPromptGroup's local path (storage.ts 323-356)
CreateLocally(name, content) ==
  LET groupId == nextId
      versionId == nextId + 1
      groups == Append(GetAllGroups(storage), LocalGroup(groupId, versionId, name, content))
  IN /\ nextId + 1 <= quota.lastId
     /\ nextId' = nextId + 2
     /\ pulls' = StartPull(pulls)
     /\ storage' = LocalStorageSet(groups)
     /\ passes' = StartPass(passes, detached, users', groups)
     /\ last' = Result("createPromptGroup", NoId, "local", TRUE, groupId, 1)
     /\ hist' = Tracked(hist, groupId)

\* createPromptGroup(name, content) up to its await (storage.ts 293-298), or
\* to its end when the remote store is not configured (316-356)
CreatePromptGroup(name, content) ==
  /\ IF configured
       THEN /\ CallsInFlight(passes, detached, users) < MaxCalls
            /\ users' = Append(users, UserCall("createPromptGroup", NoId, name, content))
            /\ last' = Result("createPromptGroup:await", NoId, "none", FALSE, NoId, 0)
            /\ UNCHANGED <<storage, nextId, pulls, passes, hist>>
       ELSE /\ users' = users
            /\ CreateLocally(name, content)
  /\ returned' = Remembered
  /\ UNCHANGED <<configured, memory, remote, detached>>

\* a createPromptGroup without the catch: a remote failure reaches the caller
\* and nothing is written
CreatePromptGroupRethrow(u) ==
  LET call == users[u]
      group == ConvertGroupToLocal(
                 RemoteGroup(call.rid, call.name, call.content),
                 <<RemoteVersion(call.vid, call.rid, InitialVersionName(call.name),
                                 call.content, "current", 1)>>)
  IN /\ call.op = "createPromptGroup"
     /\ call.pc = "resume"
     /\ users' = RemoveAt(users, u)
     /\ IF call.ok
          THEN /\ storage' = LocalStorageSet(<<group>> \o storage)
               /\ pulls' = StartPull(pulls)
               /\ last' = Result("createPromptGroup", NoId, "remote", TRUE, group.id, 1)
               /\ hist' = Tracked(hist, group.id)
               /\ UNCHANGED <<nextId, passes>>
          ELSE /\ last' = Result("createPromptGroup", NoId, "local", FALSE, NoId, 0)
               /\ UNCHANGED <<storage, nextId, pulls, passes, hist>>
     /\ returned' = Remembered
     /\ UNCHANGED <<configured, memory, quota, remote, detached>>

\* createPromptGroup after its await (storage.ts 299-356): the group the
\* remote store made goes to the head of the cache, or the local path is taken
CreatePromptGroupResume(u) ==
  LET call == users[u]
      group == ConvertGroupToLocal(
                 RemoteGroup(call.rid, call.name, call.content),
                 <<RemoteVersion(call.vid, call.rid, InitialVersionName(call.name),
                                 call.content, "current", 1)>>)
  IN /\ call.op = "createPromptGroup"
     /\ call.pc = "resume"
     /\ users' = RemoveAt(users, u)
     /\ IF call.ok
          THEN /\ storage' = LocalStorageSet(<<group>> \o storage)
               /\ pulls' = StartPull(pulls)
               /\ last' = Result("createPromptGroup", NoId, "remote", TRUE, group.id, 1)
               /\ hist' = Tracked(hist, group.id)
               /\ UNCHANGED <<nextId, passes>>
          ELSE CreateLocally(call.name, call.content)
     /\ returned' = Remembered
     /\ UNCHANGED <<configured, memory, quota, remote, detached>>

\* a filter with the comparison turned round: groups.filter(g => g.id === groupId)
RemoveOthers(groupId) ==
  LET groups == GetAllGroups(storage)
      Keep(g) == g.id = groupId
  IN SelectSeq(groups, Keep)

\* groups.filter(g => g.id !== groupId) written back (storage.ts 681-683,
\* 703-705)
RemoveLocally(groupId) ==
  LET groups == GetAllGroups(storage)
      Keep(g) == g.id # groupId
  IN SelectSeq(groups, Keep)

\* deleteGroup(groupId) up to its await (storage.ts 672-677), or to its end
\* when the remote store is not configured (695-706)
DeleteGroup(groupId) ==
  /\ IF configured
       THEN /\ CallsInFlight(passes, detached, users) < MaxCalls
            /\ users' = Append(users, UserCall("deleteGroup", groupId, "", ""))
            /\ last' = Result("deleteGroup:await", groupId, "none", FALSE, NoId, 0)
            /\ UNCHANGED <<storage, pulls, hist>>
       ELSE /\ storage' = LocalStorageSet(RemoveLocally(groupId))
            /\ pulls' = StartPull(pulls)
            /\ last' = Result("deleteGroup", groupId, "local",
                              Len(RemoveLocally(groupId)) # Len(storage), NoId, 0)
            /\ users' = users
            /\ hist' = Untracked(hist, groupId)
  /\ returned' = Remembered
  /\ UNCHANGED <<configured, memory, nextId, remote, passes, detached>>

\* deleteGroup after its await (storage.ts 678-706)
DeleteGroupResume(u) ==
  LET call == users[u]
  IN /\ call.op = "deleteGroup"
     /\ call.pc = "resume"
     /\ users' = RemoveAt(users, u)
     /\ storage' = LocalStorageSet(RemoveLocally(call.groupId))
     /\ IF call.ok
          THEN /\ pulls' = StartPull(StartPull(pulls))
               /\ last' = Result("deleteGroup", call.groupId, "remote", TRUE, NoId, 0)
          ELSE /\ pulls' = StartPull(pulls)
               /\ last' = Result("deleteGroup", call.groupId, "fallback",
                                 Len(RemoveLocally(call.groupId)) # Len(storage), NoId, 0)
     /\ hist' = Untracked(hist, call.groupId)
     /\ returned' = Remembered
     /\ UNCHANGED <<configured, memory, quota, nextId, remote, passes, detached>>

----
\* A pull: supabasePromptService.getAllGroups() and the .then / .catch of
\* syncFromSupabase (part_004 72-108, storage.ts 438-447).

PullFetchGroups(i) ==
  /\ pulls[i].pc = "groups"
  /\ pulls' = [pulls EXCEPT ![i].pc = "versions", ![i].groupRows = Descending(rGroups)]
  /\ last' = Background
  /\ returned' = Remembered
  /\ UNCHANGED <<configured, memory, quota, hist, storage, nextId, remote, passes, detached, users>>

PullFetchVersions(i) ==
  /\ pulls[i].pc = "versions"
  /\ pulls' = [pulls EXCEPT ![i].pc = "then", ![i].groupRows = <<>>,
                            ![i].result = ConvertAll(pulls[i].groupRows,
                                                     Descending(rVersions))]
  /\ last' = Background
  /\ returned' = Remembered
  /\ UNCHANGED <<configured, memory, quota, hist, storage, nextId, remote, passes, detached, users>>

\* what the dispatch of promptGroupsUpdated leaves in last: the event's detail,
\* and the stored value a listener reads while the event is dispatched
\* (storage.ts 443)
Dispatched(detail, seen) ==
  [op |-> "promptGroupsUpdated", id |-> NoId, status |-> "none", ok |-> TRUE,
   ret |-> NoId, num |-> 0, detail |-> detail, seen |-> seen]

\* a .then that merges: the groups without remote id stay behind the fetched
\* ones
PullThenMerging(i) ==
  LET IsLocal(g) == g.supabase_id = NoId
      groups == pulls[i].result \o SelectSeq(GetAllGroups(storage), IsLocal)
  IN /\ pulls[i].pc = "then"
     /\ storage' = LocalStorageSet(groups)
     /\ pulls' = RemoveAt(pulls, i)
     /\ last' = Dispatched(pulls[i].result, LocalStorageSet(groups))
     /\ hist' = <<>>
     /\ returned' = Remembered
     /\ UNCHANGED <<configured, memory, quota, nextId, remote, passes, detached, users>>

\* .then(groups => localStorage.set(PROMPT_GROUPS, groups); dispatchEvent)
\* (storage.ts 439-444)
PullThen(i) ==
  /\ pulls[i].pc = "then"
  /\ storage' = LocalStorageSet(pulls[i].result)
  /\ pulls' = RemoveAt(pulls, i)
  /\ last' = Dispatched(pulls[i].result, LocalStorageSet(pulls[i].result))
  /\ hist' = <<>>
  /\ returned' = Remembered
  /\ UNCHANGED <<configured, memory, quota, nextId, remote, passes, detached, users>>

\* what the .catch of syncFromSupabase leaves in last (storage.ts 445-447)
Caught == Result("syncFromSupabase:catch", NoId, "none", FALSE, NoId, 0)

\* a failure handler that takes the failed fetch for an empty collection
PullFailsClearing(i) ==
  /\ pulls[i].pc \in {"groups", "versions"}
  /\ pulls' = RemoveAt(pulls, i)
  /\ storage' = LocalStorageSet(<<>>)
  /\ last' = Dispatched(<<>>, LocalStorageSet(<<>>))
  /\ hist' = <<>>
  /\ returned' = Remembered
  /\ UNCHANGED <<configured, memory, quota, nextId, remote, passes, detached, users>>

\* either selection fails: getAllGroups throws, .catch logs
PullFails(i) ==
  /\ pulls[i].pc \in {"groups", "versions"}
  /\ pulls' = RemoveAt(pulls, i)
  /\ last' = Caught
  /\ returned' = Remembered
  /\ UNCHANGED <<configured, memory, quota, hist, storage, nextId, remote, passes, detached, users>>

----
\* The remote calls of a push pass and their callbacks.

\* passes with call c of pass p replaced
WithCall(p, c, call) == [passes EXCEPT ![p].calls[c] = call]

\* passes with call c of pass p gone, and the pass with it when it was the last
WithoutCall(ps, p, c) ==
  IF Len(ps[p].calls) = 1
    THEN RemoveAt(ps, p)
    ELSE [ps EXCEPT ![p].calls = RemoveAt(@, c)]

\* createGroup: INSERT INTO prompt_groups (part_004 122-137)
PassInsertGroup(p, c) ==
  LET call == passes[p].calls[c]
      g == passes[p].groups[call.gi]
  IN /\ call.pc = "insertGroup"
     /\ nextId <= quota.lastId
     /\ nextId' = nextId + 1
     /\ rGroups' = Append(rGroups, RemoteGroup(nextId, g.name, g.versions[1].content))
     /\ passes' = WithCall(p, c, [call EXCEPT !.pc = "insertVersion", !.target = nextId])
     /\ last' = Background
     /\ returned' = Remembered
     /\ UNCHANGED <<configured, memory, quota, hist, storage, rVersions, pulls, detached, users>>

\* createGroup: INSERT INTO prompt_versions of the initial row (part_004
\* 145-171); a rejected insert makes createGroup return null
PassInsertVersion(p, c) ==
  LET call == passes[p].calls[c]
      g == passes[p].groups[call.gi]
      content == g.versions[1].content
  IN /\ call.pc = "insertVersion"
     /\ IF VersionInsertable(rGroups, call.target, content)
          THEN /\ nextId <= quota.lastId
               /\ nextId' = nextId + 1
               /\ rVersions' = InsertVersionRow(rVersions, nextId, call.target,
                                                InitialVersionName(g.name), content,
                                                "current", 1)
               /\ passes' = WithCall(p, c, [call EXCEPT !.pc = "then", !.rid = nextId])
               /\ last' = Background
          ELSE /\ passes' = WithoutCall(passes, p, c)
               /\ last' = Background
               /\ UNCHANGED <<nextId, rVersions>>
     /\ returned' = Remembered
     /\ UNCHANGED <<configured, memory, quota, hist, storage, rGroups, pulls, detached, users>>

\* .then(supabaseGroup => ...) of case 1 (storage.ts 465-495)
PassCreateGroupThen(p, c) ==
  LET call == passes[p].calls[c]
      groups == [passes[p].groups EXCEPT ![call.gi].supabase_id = call.target]
      g == groups[call.gi]
      rest == RemoveAt(passes[p].calls, c)
      others == WithoutCall(passes, p, c)
      extra == Take([k \in 1 .. (Len(g.versions) - 1) |->
                       Call("addExtra", call.gi, k + 1, call.target)],
                    MaxCalls - CallsInFlight(others, detached, users))
  IN /\ call.kind = "createGroup"
     /\ call.pc = "then"
     /\ storage' = LocalStorageSet(groups)
     /\ passes' = IF rest \o extra = <<>>
                    THEN RemoveAt(passes, p)
                    ELSE [passes EXCEPT ![p] = [groups |-> groups, calls |-> rest \o extra]]
     /\ last' = Background
     /\ returned' = Remembered
     /\ UNCHANGED <<configured, memory, quota, hist, nextId, remote, pulls, detached, users>>

\* addVersion: the selection of the highest version_number (part_004 194-205)
PassSelectMax(p, c) ==
  LET call == passes[p].calls[c]
  IN /\ call.pc = "selectMax"
     /\ passes' = WithCall(p, c, [call EXCEPT
                                    !.pc = "insert",
                                    !.num = MaxVersionNumber(rVersions, call.target)])
     /\ last' = Background
     /\ returned' = Remembered
     /\ UNCHANGED <<configured, memory, quota, hist, storage, nextId, remote, pulls, detached, users>>

\* addVersion: INSERT INTO prompt_versions, as draft (part_004 212-233); a
\* rejected insert makes addVersion return null
PassInsertRow(p, c) ==
  LET call == passes[p].calls[c]
      version == passes[p].groups[call.gi].versions[call.vi]
  IN /\ call.pc = "insert"
     /\ IF VersionInsertable(rGroups, call.target, version.content)
          THEN /\ nextId <= quota.lastId
               /\ nextId' = nextId + 1
               /\ rVersions' = InsertVersionRow(rVersions, nextId, call.target,
                                                version.name, version.content, "draft",
                                                call.num + 1)
               /\ passes' = WithCall(p, c, [call EXCEPT !.pc = "then", !.rid = nextId])
               /\ last' = Background
          ELSE /\ passes' = WithoutCall(passes, p, c)
               /\ last' = Background
               /\ UNCHANGED <<nextId, rVersions>>
     /\ returned' = Remembered
     /\ UNCHANGED <<configured, memory, quota, hist, storage, rGroups, pulls, detached, users>>

\* (group._syncedVersionIds as Set).add(version.id) (storage.ts 535-542); on a
\* value that is no Set and no array the call throws and .catch logs
MarkSynced(g, versionId) ==
  IF g.synced.kind \in {"set", "array", "absent"}
    THEN [g EXCEPT !.synced = [kind |-> "set",
                               ids |-> Dedupe(Append(@.ids, versionId))]]
    ELSE g

\* .then(result => ...) of addVersion: of case 2 (storage.ts 531-551), which
\* marks the version synced and saves, and of case 1 (483-491)
PassAddVersionThen(p, c) ==
  LET call == passes[p].calls[c]
      g == passes[p].groups[call.gi]
      version == g.versions[call.vi]
      marked == call.kind = "addVersion" /\ g.synced.kind # "object"
      groups == IF marked
                  THEN [passes[p].groups EXCEPT ![call.gi] = MarkSynced(@, version.id)]
                  ELSE passes[p].groups
      others == WithoutCall([passes EXCEPT ![p].groups = groups], p, c)
  IN /\ call.kind \in {"addVersion", "addExtra"}
     /\ call.pc = "then"
     /\ storage' = IF marked THEN LocalStorageSet(groups) ELSE storage
     /\ passes' = others
     /\ detached' =
          IF version.status \in {"current", "production"}
             /\ (call.kind = "addExtra" \/ marked)
            THEN StartDetached(others, detached, users,
                               Detached("setStatus", call.rid, version.status))
            ELSE detached
     /\ last' = Background
     /\ returned' = Remembered
     /\ UNCHANGED <<configured, memory, quota, hist, nextId, remote, pulls, users>>

\* a callback that marks the version synced without looking at the result
PassCallFailsMarking(p, c) ==
  LET call == passes[p].calls[c]
      groups == [passes[p].groups EXCEPT
                   ![call.gi] = MarkSynced(@, @.versions[call.vi].id)]
  IN /\ call.pc # "then"
     /\ storage' = LocalStorageSet(groups)
     /\ passes' = WithoutCall([passes EXCEPT ![p].groups = groups], p, c)
     /\ last' = Background
     /\ returned' = Remembered
     /\ UNCHANGED <<configured, memory, quota, hist, nextId, remote, pulls, detached, users>>

\* a statement of the call fails (network, authorisation): createGroup and
\* addVersion return null and their callbacks do nothing
PassCallFails(p, c) ==
  /\ passes[p].calls[c].pc # "then"
  /\ passes' = WithoutCall(passes, p, c)
  /\ last' = Background
  /\ returned' = Remembered
  /\ UNCHANGED <<configured, memory, quota, hist, storage, nextId, remote, pulls, detached, users>>

----
\* Remote calls nothing waits for.

\* setVersionStatus: the selection of the row's group (part_004 256-262)
DetachedSelect(d) ==
  LET call == detached[d]
      at == CHOOSE i \in DOMAIN rVersions : rVersions[i].id = call.id
  IN /\ call.pc = "select"
     /\ detached' =
          IF HasRow(rVersions, call.id)
            THEN [detached EXCEPT
                    ![d].target = rVersions[at].group_id,
                    ![d].pc = IF call.value \in {"current", "production"}
                                THEN "clear" ELSE "update"]
            ELSE RemoveAt(detached, d)
     /\ last' = Background
     /\ returned' = Remembered
     /\ UNCHANGED <<configured, memory, quota, hist, storage, nextId, remote, pulls, passes, users>>

\* setVersionStatus: every other row of the group to draft (part_004 265-271);
\* the statement's error is not looked at
DetachedClear(d, done) ==
  LET call == detached[d]
  IN /\ call.pc = "clear"
     /\ rVersions' = IF done THEN ClearOtherRows(rVersions, call.target, call.id)
                     ELSE rVersions
     /\ detached' = [detached EXCEPT ![d].pc = "update"]
     /\ last' = Background
     /\ returned' = Remembered
     /\ UNCHANGED <<configured, memory, quota, hist, storage, nextId, rGroups, pulls, passes, users>>

\* the UPDATE of setVersionStatus (part_004 274-277), updateVersion (292-295)
\* or updateGroup (352-355)
DetachedUpdate(d) ==
  LET call == detached[d]
  IN /\ call.pc = "update"
     /\ rVersions' = CASE call.kind = "setStatus" ->
                            UpdateRowStatus(rVersions, call.id, call.value)
                       [] call.kind = "updateVersion" ->
                            UpdateRowName(rVersions, call.id, call.value)
                       [] OTHER -> rVersions
     /\ rGroups' = IF call.kind = "updateGroup"
                     THEN UpdateRowName(rGroups, call.id, call.value)
                     ELSE rGroups
     /\ detached' = RemoveAt(detached, d)
     /\ last' = Background
     /\ returned' = Remembered
     /\ UNCHANGED <<configured, memory, quota, hist, storage, nextId, pulls, passes, users>>

\* the selection or the UPDATE fails: the call returns false, or rejects into
\* a .catch that logs
DetachedFails(d) ==
  /\ detached[d].pc \in {"select", "update"}
  /\ detached' = RemoveAt(detached, d)
  /\ last' = Background
  /\ returned' = Remembered
  /\ UNCHANGED <<configured, memory, quota, hist, storage, nextId, remote, pulls, passes, users>>

----
\* The remote call a suspended createPromptGroup or deleteGroup awaits.

\* createGroup: INSERT INTO prompt_groups (part_004 122-137)
UserInsertGroup(u) ==
  LET call == users[u]
  IN /\ call.pc = "insertGroup"
     /\ nextId <= quota.lastId
     /\ nextId' = nextId + 1
     /\ rGroups' = Append(rGroups, RemoteGroup(nextId, call.name, call.content))
     /\ users' = [users EXCEPT ![u].pc = "insertVersion", ![u].rid = nextId]
     /\ last' = Background
     /\ returned' = Remembered
     /\ UNCHANGED <<configured, memory, quota, hist, storage, rVersions, pulls, passes, detached>>

\* createGroup: INSERT INTO prompt_versions of the initial row (part_004
\* 145-171)
UserInsertVersion(u) ==
  LET call == users[u]
  IN /\ call.pc = "insertVersion"
     /\ IF VersionInsertable(rGroups, call.rid, call.content)
          THEN /\ nextId <= quota.lastId
               /\ nextId' = nextId + 1
               /\ rVersions' = InsertVersionRow(rVersions, nextId, call.rid,
                                                InitialVersionName(call.name),
                                                call.content, "current", 1)
               /\ users' = [users EXCEPT ![u].pc = "resume", ![u].ok = TRUE,
                                         ![u].vid = nextId]
               /\ last' = Background
          ELSE /\ users' = [users EXCEPT ![u].pc = "resume", ![u].ok = FALSE]
               /\ last' = Background
               /\ UNCHANGED <<nextId, rVersions>>
     /\ returned' = Remembered
     /\ UNCHANGED <<configured, memory, quota, hist, storage, rGroups, pulls, passes, detached>>

\* deleteGroup: DELETE FROM prompt_versions of the group (part_004 329-332);
\* the statement's error is not looked at
UserDeleteVersions(u, done) ==
  LET call == users[u]
  IN /\ call.pc = "deleteVersions"
     /\ rVersions' = IF done THEN DeleteRowsOfGroup(rVersions, call.groupId)
                     ELSE rVersions
     /\ users' = [users EXCEPT ![u].pc = "deleteGroup"]
     /\ last' = Background
     /\ returned' = Remembered
     /\ UNCHANGED <<configured, memory, quota, hist, storage, nextId, rGroups, pulls, passes, detached>>

\* deleteGroup: DELETE FROM prompt_groups (part_004 335-341); the rows of
\* prompt_versions go with it (ON DELETE CASCADE, schema 46)
UserDeleteGroupRow(u) ==
  LET call == users[u]
  IN /\ call.pc = "deleteGroup"
     /\ rGroups' = DeleteGroupRow(rGroups, call.groupId)
     /\ rVersions' = DeleteRowsOfGroup(rVersions, call.groupId)
     /\ users' = [users EXCEPT ![u].pc = "resume", ![u].ok = TRUE]
     /\ last' = Background
     /\ returned' = Remembered
     /\ UNCHANGED <<configured, memory, quota, hist, storage, nextId, pulls, passes, detached>>

\* a statement whose error is looked at fails: createGroup returns null,
\* deleteGroup returns false
UserCallFails(u) ==
  /\ users[u].pc \in {"insertGroup", "insertVersion", "deleteGroup"}
  /\ users' = [users EXCEPT ![u].pc = "resume", ![u].ok = FALSE]
  /\ last' = Background
  /\ returned' = Remembered
  /\ UNCHANGED <<configured, memory, quota, hist, storage, nextId, remote, pulls, passes, detached>>

----
\* The specification: every interleaving of the operations a user starts with
\* the steps of the remote calls in flight.

\* options.status of addVersion (storage.ts 366), "none" when not given
AddStatuses == {"none", "draft", "current"}

Empty ==
  /\ storage = <<>>
  /\ nextId = 1
  /\ rGroups = <<>>
  /\ rVersions = <<>>
  /\ pulls = <<>>
  /\ passes = <<>>
  /\ detached = <<>>
  /\ users = <<>>
  /\ last = Result("init", NoId, "none", FALSE, NoId, 0)
  /\ returned = Result("init", NoId, "none", FALSE, NoId, 0)
  /\ hist = <<>>
  /\ quota = [ops |-> MaxOps, renames |-> MaxRenames, empties |-> MaxEmpty,
              lastId |-> MaxIds, pulls |-> MaxPulls]

Init == configured \in BOOLEAN /\ memory = <<>> /\ Empty

\* the identifiers a caller passes: those of the groups, or of the versions,
\* in the cache, and one that is in no cache
GroupIds == {storage[i].id : i \in DOMAIN storage} \cup {nextId}

VersionIds ==
  UNION {{storage[i].versions[j].id : j \in DOMAIN storage[i].versions} :
           i \in DOMAIN storage} \cup {nextId}

\* the user starts operation Op, within what quota allows
Starts(Op, rename, content) ==
  /\ configured => quota.ops > 0
  /\ rename => quota.renames > 0
  /\ content = "" => quota.empties > 0
  /\ Op
  /\ quota' = [ops |-> IF configured THEN quota.ops - 1 ELSE quota.ops,
               renames |-> IF rename THEN quota.renames - 1 ELSE quota.renames,
               empties |-> IF content = "" THEN quota.empties - 1 ELSE quota.empties,
               lastId |-> quota.lastId,
               pulls |-> quota.pulls]

\* what makes a group: createPromptGroup, the remote createGroup it awaits,
\* and case 1 of a push pass
Creating ==
  \/ \E content \in Contents :
       Starts(CreatePromptGroup("G", content), FALSE, content)
  \/ \E u \in DOMAIN users : UserInsertGroup(u)
  \/ \E u \in DOMAIN users : UserInsertVersion(u)
  \/ \E u \in DOMAIN users : CreatePromptGroupResume(u)
  \/ \E p \in DOMAIN passes : \E c \in DOMAIN passes[p].calls : PassInsertGroup(p, c)
  \/ \E p \in DOMAIN passes : \E c \in DOMAIN passes[p].calls : PassInsertVersion(p, c)
  \/ \E p \in DOMAIN passes : \E c \in DOMAIN passes[p].calls : PassCreateGroupThen(p, c)

\* a pull
Pulling ==
  \/ \E i \in DOMAIN pulls : PullFetchGroups(i)
  \/ \E i \in DOMAIN pulls : PullFetchVersions(i)
  \/ \E i \in DOMAIN pulls : PullThen(i)
  \/ \E i \in DOMAIN pulls : PullFails(i)

\* the other mutations, the remote addVersion calls of a push pass, the
\* remote calls nothing waits for, and the remote deleteGroup
Working ==
  \/ \E id \in GroupIds, content \in Contents, status \in AddStatuses :
       Starts(AddVersion(id, content, status), FALSE, content)
  \/ \E id \in VersionIds, status \in Statuses :
       Starts(SetVersionStatus(id, status), FALSE, "p")
  \/ \E id \in VersionIds : Starts(DeleteVersion(id), FALSE, "p")
  \/ \E id \in GroupIds : Starts(DeleteGroup(id), FALSE, "p")
  \/ \E id \in GroupIds : Starts(UpdateGroup(id, "H"), TRUE, "p")
  \/ \E id \in VersionIds, name \in VersionNames :
       Starts(UpdateVersion(id, name), TRUE, "p")
  \/ \E u \in DOMAIN users : DeleteGroupResume(u)
  \/ \E p \in DOMAIN passes : \E c \in DOMAIN passes[p].calls : PassSelectMax(p, c)
  \/ \E p \in DOMAIN passes : \E c \in DOMAIN passes[p].calls : PassInsertRow(p, c)
  \/ \E p \in DOMAIN passes : \E c \in DOMAIN passes[p].calls : PassAddVersionThen(p, c)
  \/ \E p \in DOMAIN passes : \E c \in DOMAIN passes[p].calls : PassCallFails(p, c)
  \/ \E d \in DOMAIN detached : DetachedSelect(d)
  \/ \E d \in DOMAIN detached, done \in BOOLEAN : DetachedClear(d, done)
  \/ \E d \in DOMAIN detached : DetachedUpdate(d)
  \/ \E d \in DOMAIN detached : DetachedFails(d)
  \/ \E u \in DOMAIN users, done \in BOOLEAN : UserDeleteVersions(u, done)
  \/ \E u \in DOMAIN users : UserDeleteGroupRow(u)
  \/ \E u \in DOMAIN users : UserCallFails(u)

Next == Creating \/ Pulling \/ Working

Spec == Init /\ [][Next]_vars

\* The state createPromptGroup("G", "p") leaves when the remote store is
\* configured and made the group (storage.ts 298-313), once the pull it
\* started has failed: the rows createGroup inserted (part_004 122-171) and,
\* in the cache, their conversion (part_004 176).
WarmGroupRow == RemoteGroup(1, "G", "p")

WarmVersionRow == RemoteVersion(2, 1, InitialVersionName("G"), "p", "current", 1)

Warm ==
  /\ configured = TRUE
  /\ storage = LocalStorageSet(<<ConvertGroupToLocal(WarmGroupRow, <<WarmVersionRow>>)>>)
  /\ nextId = 3
  /\ rGroups = <<WarmGroupRow>>
  /\ rVersions = <<WarmVersionRow>>
  /\ pulls = <<>>
  /\ passes = <<>>
  /\ detached = <<>>
  /\ users = <<>>
  /\ last = Background
  /\ returned = Result("createPromptGroup", NoId, "remote", TRUE, 1, 1)
  /\ hist = Tracked(<<>>, 1)
  /\ memory = <<>>

\* from there, the user works on the group there is and creates no other,
\* and every pull fails at its first selection
InitWarm ==
  /\ Warm
  /\ quota = [ops |-> MaxOps, renames |-> MaxRenames, empties |-> 0,
              lastId |-> 2 + MaxWarmIds, pulls |-> 0]

SpecWarm == InitWarm /\ [][Working]_vars

\* The same start with a remote store whose every call succeeds: the user adds
\* versions, sets statuses and deletes versions, the push passes and the
\* remote setVersionStatus calls run to their end, and so do the pulls.
InitReliable ==
  /\ Warm
  /\ quota = [ops |-> MaxReliableOps, renames |-> 0, empties |-> 0,
              lastId |-> 2 + MaxReliableIds, pulls |-> MaxPulls]

Reliable ==
  \/ \E id \in GroupIds, status \in AddStatuses :
       Starts(AddVersion(id, "p", status), FALSE, "p")
  \/ \E id \in VersionIds, status \in Statuses :
       Starts(SetVersionStatus(id, status), FALSE, "p")
  \/ \E id \in VersionIds : Starts(DeleteVersion(id), FALSE, "p")
  \/ \E p \in DOMAIN passes : \E c \in DOMAIN passes[p].calls : PassSelectMax(p, c)
  \/ \E p \in DOMAIN passes : \E c \in DOMAIN passes[p].calls : PassInsertRow(p, c)
  \/ \E p \in DOMAIN passes : \E c \in DOMAIN passes[p].calls : PassAddVersionThen(p, c)
  \/ \E d \in DOMAIN detached : DetachedSelect(d)
  \/ \E d \in DOMAIN detached : DetachedClear(d, TRUE)
  \/ \E d \in DOMAIN detached : DetachedUpdate(d)
  \/ \E i \in DOMAIN pulls : PullFetchGroups(i)
  \/ \E i \in DOMAIN pulls : PullFetchVersions(i)
  \/ \E i \in DOMAIN pulls : PullThen(i)

SpecReliable == InitReliable /\ [][Reliable]_vars

\* A cache written while the remote store was not configured, read now that it
\* is: one group without remote id, with the two versions createPromptGroup
\* and addVersion gave it and the statuses setVersionStatus may have set.
LocalOnlyGroups ==
  LET added == {AddVersionToGroup(LocalGroup(1, 2, "G", "p"), 3, "p", status) :
                  status \in AddStatuses}
  IN added \cup {SetStatusInGroup(g, 1, status) : g \in added, status \in Statuses}

InitPush ==
  /\ configured = TRUE
  /\ \E g \in LocalOnlyGroups : storage = LocalStorageSet(<<g>>)
  /\ nextId = 4
  /\ rGroups = <<>>
  /\ rVersions = <<>>
  /\ pulls = <<>>
  /\ passes = <<>>
  /\ detached = <<>>
  /\ users = <<>>
  /\ last = Background
  /\ returned = Result("init", NoId, "none", FALSE, NoId, 0)
  /\ hist = <<>>
  /\ memory = <<>>
  /\ quota = [ops |-> MaxPushOps, renames |-> 0, empties |-> 0,
              lastId |-> 3 + MaxPushIds, pulls |-> 0]

\* a mutation starts the push of the group, and the remote store answers
\* every call of it
Pushing ==
  \/ \E id \in GroupIds, status \in AddStatuses :
       Starts(AddVersion(id, "p", status), FALSE, "p")
  \/ \E id \in VersionIds, status \in Statuses :
       Starts(SetVersionStatus(id, status), FALSE, "p")
  \/ \E p \in DOMAIN passes : \E c \in DOMAIN passes[p].calls : PassInsertGroup(p, c)
  \/ \E p \in DOMAIN passes : \E c \in DOMAIN passes[p].calls : PassInsertVersion(p, c)
  \/ \E p \in DOMAIN passes : \E c \in DOMAIN passes[p].calls : PassCreateGroupThen(p, c)
  \/ \E p \in DOMAIN passes : \E c \in DOMAIN passes[p].calls : PassSelectMax(p, c)
  \/ \E p \in DOMAIN passes : \E c \in DOMAIN passes[p].calls : PassInsertRow(p, c)
  \/ \E p \in DOMAIN passes : \E c \in DOMAIN passes[p].calls : PassAddVersionThen(p, c)
  \/ \E d \in DOMAIN detached : DetachedSelect(d)
  \/ \E d \in DOMAIN detached : DetachedClear(d, TRUE)
  \/ \E d \in DOMAIN detached : DetachedUpdate(d)

SpecPush == InitPush /\ [][Pushing]_vars

----
\* The state the accepted race of the pull path leaves: createPromptGroup("G",
\* "p") took the local path and started the push of group 1, a pull that had
\* read the remote store before completed and emptied the cache, and the two
\* inserts of the push's createGroup have succeeded, its .then still to run
\* (storage.ts 354, 439-444, 464-471).

RacedGroupRow == RemoteGroup(3, "G", "p")

RacedVersionRow == RemoteVersion(4, 3, InitialVersionName("G"), "p", "current", 1)

RacedCall ==
  [Call("createGroup", 1, 1, NoId) EXCEPT !.pc = "then", !.target = 3, !.rid = 4]

Raced ==
  /\ configured = TRUE
  /\ storage = LocalStorageSet(<<>>)
  /\ nextId = 5
  /\ rGroups = <<RacedGroupRow>>
  /\ rVersions = <<RacedVersionRow>>
  /\ pulls = <<>>
  /\ passes = <<[groups |-> PassGroups(<<LocalGroup(1, 2, "G", "p")>>),
                 calls |-> <<RacedCall>>]>>
  /\ detached = <<>>
  /\ users = <<>>
  /\ last = Background
  /\ returned = Result("createPromptGroup", NoId, "local", TRUE, 1, 1)
  /\ hist = <<>>
  /\ memory = <<>>

InitRaced ==
  /\ Raced
  /\ quota = [ops |-> MaxRacedOps, renames |-> MaxRenames, empties |-> 0,
              lastId |-> 4 + MaxRacedIds, pulls |-> MaxPulls]

SpecRaced == InitRaced /\ [][Next]_vars

----
\* Reading: a caller reads all groups while the user adds versions to the
\* group there is, and the pull each read starts succeeds or fails.

\* groups = getAllGroups(): the pull it starts and the groups it returns
\* (storage.ts 413-431)
ReadAllGroups ==
  /\ pulls' = StartPull(pulls)
  /\ memory' = GetAllGroups(storage)
  /\ last' = Result("getAllGroups", NoId, "none", TRUE, NoId, 0)
  /\ returned' = Remembered
  /\ UNCHANGED <<configured, quota, hist, storage, nextId, remote, passes, detached, users>>

InitRead ==
  /\ Warm
  /\ quota = [ops |-> MaxReadOps, renames |-> 0, empties |-> 0,
              lastId |-> 2 + MaxReadIds, pulls |-> MaxPulls]

Reading ==
  \/ ReadAllGroups
  \/ \E id \in GroupIds, status \in AddStatuses :
       Starts(AddVersion(id, "p", status), FALSE, "p")
  \/ \E p \in DOMAIN passes : \E c \in DOMAIN passes[p].calls : PassSelectMax(p, c)
  \/ \E p \in DOMAIN passes : \E c \in DOMAIN passes[p].calls : PassInsertRow(p, c)
  \/ \E p \in DOMAIN passes : \E c \in DOMAIN passes[p].calls : PassAddVersionThen(p, c)
  \/ \E i \in DOMAIN pulls : PullFetchGroups(i)
  \/ \E i \in DOMAIN pulls : PullFetchVersions(i)
  \/ \E i \in DOMAIN pulls : PullThen(i)
  \/ \E i \in DOMAIN pulls : PullFails(i)

SpecRead == InitRead /\ [][Reading]_vars

----
\* Saving and loading on their own: a caller holds a groups array in memory,
\* saves it with localStorage.set, loads it with getAllGroups, and marks
\* versions synced in between.

\* the values _syncedVersionIds has in memory over versions 2 and 3: the field
\* is absent, a Set, or the array a raw localStorage.get returned
SyncedValues ==
  {Absent} \cup
  {[kind |-> k, ids |-> ids] :
     k \in {"set", "array"}, ids \in {<<>>, <<2>>, <<3>>, <<2, 3>>, <<3, 2>>}}

\* the group of Warm with a second version, with each of these values
StoreGroups ==
  {[AddVersionToGroup(ConvertGroupToLocal(WarmGroupRow, <<WarmVersionRow>>),
                      3, "p", "none") EXCEPT !.synced = value] :
     value \in SyncedValues}

\* arrays of one group, or of one group and a group made locally
StoreArrays ==
  {<<g>> : g \in StoreGroups} \cup
  {<<g, LocalGroup(4, 5, "H", "p")>> : g \in StoreGroups}

InitStore ==
  /\ configured = FALSE
  /\ memory \in StoreArrays
  /\ Empty

\* localStorage.set(PROMPT_GROUPS, groups) (storage.ts 147-171)
SaveGroups ==
  /\ storage' = LocalStorageSet(memory)
  /\ last' = Result("save", NoId, "none", TRUE, NoId, 0)
  /\ returned' = Remembered
  /\ UNCHANGED <<configured, hist, nextId, remote, pulls, passes, detached, users,
                 memory, quota>>

\* groups = getAllGroups() (storage.ts 414-431)
LoadGroups ==
  /\ memory' = GetAllGroups(storage)
  /\ last' = Result("load", NoId, "none", TRUE, NoId, 0)
  /\ returned' = Remembered
  /\ UNCHANGED <<configured, hist, nextId, remote, pulls, passes, detached, users,
                 storage, quota>>

\* the caller marks version vi of group gi synced (storage.ts 535-542)
MarkInMemory(gi, vi) ==
  /\ memory[gi].synced.kind # "object"
  /\ memory' = [memory EXCEPT ![gi] = MarkSynced(@, @.versions[vi].id)]
  /\ last' = Result("mark", NoId, "none", TRUE, NoId, 0)
  /\ returned' = Remembered
  /\ UNCHANGED <<configured, hist, nextId, remote, pulls, passes, detached, users,
                 storage, quota>>

NextStore ==
  \/ SaveGroups
  \/ LoadGroups
  \/ \E gi \in DOMAIN memory : \E vi \in DOMAIN memory[gi].versions :
       MarkInMemory(gi, vi)

SpecStore == InitStore /\ [][NextStore]_vars

----
\* What the properties below read.

\* the cache as a caller reads it
Cache == GetAllGroups(storage)

\* the indices of the versions of g that have this status
WithStatus(g, status) == {j \in DOMAIN g.versions : g.versions[j].status = status}

\* the group of the cache that the operation in last worked on, when last
\* names a version
OwnerOfLast == Cache[OwnerIndexOf(Cache, last.id)]

----
\* C1: right after setVersionStatus(v, s) returns true with s current or
\* production, whatever calls came before it, exactly one version of v's
\* group has status s, and that version is v.
C1_SoleHolder ==
  (/\ last.op = "setVersionStatus"
   /\ last.ok
   /\ last.status \in {"current", "production"})
  => /\ OwnerIndexOf(Cache, last.id) # 0
     /\ WithStatus(OwnerOfLast, last.status)
          = {VersionIndexOf(OwnerOfLast, last.id)}

\* setVersionStatus(v, production) has just succeeded in a group of three
\* versions, another of which is current
C1_Witness ==
  /\ last.op = "setVersionStatus"
  /\ last.ok
  /\ last.status = "production"
  /\ OwnerIndexOf(Cache, last.id) # 0
  /\ Len(OwnerOfLast.versions) = 3
  /\ WithStatus(OwnerOfLast, "current") # {}

\* C2: in every reachable state, whatever the interleaving of mutations, push
\* callbacks and pull completions, every group of the cache has at most one
\* current version and at most one production version.
C2_AtMostOne ==
  \A i \in DOMAIN storage :
    /\ CountStatus(storage[i], "current") <= 1
    /\ CountStatus(storage[i], "production") <= 1

\* a callback of a remote call has just run while the cache holds a group with
\* a current version, a production version and a remote id
C2_Witness ==
  /\ configured
  /\ last.op = "background"
  /\ \E i \in DOMAIN storage :
       /\ storage[i].supabase_id # NoId
       /\ Len(storage[i].versions) >= 2
       /\ CountStatus(storage[i], "current") = 1
       /\ CountStatus(storage[i], "production") = 1

\* C3: deleteVersion of the only version of a group returns false and leaves
\* the cache as it was.
C3_OnlyVersionKept ==
  [][(/\ last'.op = "deleteVersion"
      /\ OwnerIndexOf(Cache, last'.id) # 0
      /\ Len(Cache[OwnerIndexOf(Cache, last'.id)].versions) = 1)
     => (~last'.ok /\ storage' = storage)]_vars

\* deleteVersion has just refused to delete the only version of a group
C3_Witness ==
  /\ last.op = "deleteVersion"
  /\ ~last.ok
  /\ OwnerIndexOf(Cache, last.id) # 0
  /\ Len(OwnerOfLast.versions) = 1

\* C4: for a group createPromptGroup returned, with no deleteVersion on it and
\* no pull applied since, the k-th addVersion that succeeds on the group
\* returns version number k + 1, and the group's version numbers are then
\* exactly 1 .. k + 1 in order.
C4_Numbering ==
  (last.op = "addVersion" /\ last.ok /\ last.id \in DOMAIN hist)
  => /\ last.num = hist[last.id] + 1
     /\ HasGroup(Cache, last.id)
     /\ VersionNumbers(GetGroupById(storage, last.id))
          = [k \in 1 .. (hist[last.id] + 1) |-> k]

\* C5: right after createPromptGroup returns, on its local path and on its
\* remote path alike, the group it returned is in the cache with exactly one
\* version, which is current, has version number 1 and is the group's
\* currentVersionId.
C5_InitialVersion ==
  last.op = "createPromptGroup"
  => /\ HasGroup(Cache, last.ret)
     /\ LET g == GetGroupById(storage, last.ret)
        IN /\ Len(g.versions) = 1
           /\ g.versions[1].status = "current"
           /\ g.versions[1].version = 1
           /\ g.versions[1].id = g.currentVersionId

\* createPromptGroup has just taken its local path after the remote store
\* returned null, next to a group that was there before
C5_Witness ==
  /\ configured
  /\ last.op = "createPromptGroup"
  /\ last.status = "local"
  /\ Len(storage) = 2

\* C6: addVersion(g, content, {status: current}) sends every current version
\* of g to draft and leaves the others as they were, appends the new version
\* as current and makes it g's currentVersionId: the new version is the only
\* current one.
C6_AddCurrent ==
  [][(last'.op = "addVersion" /\ last'.ok /\ last'.status = "current")
     => LET before == GetGroupById(storage, last'.id)
            after == GetGroupById(storage', last'.id)
        IN /\ Len(after.versions) = Len(before.versions) + 1
           /\ after.versions[Len(after.versions)].id = last'.ret
           /\ after.currentVersionId = last'.ret
           /\ WithStatus(after, "current") = {Len(after.versions)}
           /\ \A j \in DOMAIN before.versions :
                after.versions[j].status =
                  IF before.versions[j].status = "current"
                    THEN "draft" ELSE before.versions[j].status]_vars

\* addVersion with status current has just succeeded on a group that holds a
\* production version and a former current version, now a draft
C6_Witness ==
  /\ last.op = "addVersion"
  /\ last.ok
  /\ last.status = "current"
  /\ HasGroup(Cache, last.id)
  /\ LET g == GetGroupById(storage, last.id)
     IN /\ Len(g.versions) = 3
        /\ WithStatus(g, "production") # {}
        /\ WithStatus(g, "draft") # {}

\* C7: deleteVersion of a current version of a group with two versions or
\* more succeeds, and makes a remaining version of the highest version number
\* current and the group's currentVersionId.
C7_PromoteLatest ==
  [][(/\ last'.op = "deleteVersion"
      /\ OwnerIndexOf(Cache, last'.id) # 0
      /\ LET g == Cache[OwnerIndexOf(Cache, last'.id)]
         IN /\ Len(g.versions) >= 2
            /\ g.versions[VersionIndexOf(g, last'.id)].status = "current")
     => LET i == OwnerIndexOf(Cache, last'.id)
            g == Cache[i]
            remaining == DOMAIN g.versions \ {VersionIndexOf(g, last'.id)}
            after == GetAllGroups(storage')[i]
        IN /\ last'.ok
           /\ \E j \in remaining :
                /\ \A k \in remaining : g.versions[k].version <= g.versions[j].version
                /\ after.currentVersionId = g.versions[j].id
                /\ WithStatus(after, "current")
                     = {VersionIndexOf(after, g.versions[j].id)}]_vars

\* deleteVersion has just deleted the current version of a group whose two
\* remaining versions have different numbers, the higher one coming second
C7_Witness ==
  /\ last.op = "deleteVersion"
  /\ last.ok
  /\ last.status = "current"
  /\ HasGroup(Cache, last.ret)
  /\ LET g == GetGroupById(storage, last.ret)
     IN /\ Len(g.versions) = 2
        /\ g.versions[1].version < g.versions[2].version

\* C8: no version of a group that has a remote id is the subject of two
\* remote create-version calls: a push pass started while an earlier pass's
\* call for the version is still in flight issues no second call for it.
C8_OneCreateCall ==
  \A p1 \in DOMAIN passes, p2 \in DOMAIN passes :
    \A c1 \in DOMAIN passes[p1].calls, c2 \in DOMAIN passes[p2].calls :
      LET call1 == passes[p1].calls[c1]
          call2 == passes[p2].calls[c2]
      IN (/\ p1 # p2
          /\ call1.kind = "addVersion"
          /\ call2.kind = "addVersion"
          /\ call1.target = call2.target)
         => passes[p1].groups[call1.gi].versions[call1.vi].id
              # passes[p2].groups[call2.gi].versions[call2.vi].id

\* C9: right after a groups array is saved, what getAllGroups loads has, for
\* every group, a Set of synced version ids with the members the group had in
\* memory when it was saved, and the empty Set for a group saved without the
\* field.
C9_RoundTrip ==
  last.op = "save"
  => /\ Len(Cache) = Len(memory)
     /\ \A i \in DOMAIN memory :
          /\ Cache[i].synced.kind = "set"
          /\ Range(Cache[i].synced.ids) = Range(memory[i].synced.ids)
          /\ Cache[i].versions = memory[i].versions

\* an array has just been saved that holds a group with a Set of two synced
\* version ids and a group without the field
C9_Witness ==
  /\ last.op = "save"
  /\ \E i \in DOMAIN memory :
       /\ memory[i].synced.kind = "set"
       /\ Len(memory[i].synced.ids) = 2
  /\ \E i \in DOMAIN memory : memory[i].synced.kind = "absent"

\* C10: addVersion and updateGroup on a group id that is not in the cache, and
\* setVersionStatus, deleteVersion and updateVersion on a version id that is
\* not in the cache, return null or false, write nothing to the cache and
\* start no push pass and no remote call.
C10_NotFound ==
  [][(\/ /\ last'.op \in {"addVersion", "updateGroup"}
         /\ ~HasGroup(Cache, last'.id)
      \/ /\ last'.op \in {"setVersionStatus", "deleteVersion", "updateVersion"}
         /\ OwnerIndexOf(Cache, last'.id) = 0)
     => /\ ~last'.ok
        /\ last'.ret = NoId
        /\ storage' = storage
        /\ passes' = passes
        /\ detached' = detached]_vars

\* setVersionStatus has just returned false for a version id that is in no
\* group, while the cache holds a group a push pass would have had to create
C10_Witness ==
  /\ configured
  /\ last.op = "setVersionStatus"
  /\ ~last.ok
  /\ OwnerIndexOf(Cache, last.id) = 0
  /\ CallsFrom(Cache, 1) # <<>>
  /\ passes = <<>>

\* C11: no mutation issues a remote call before it has written the cache and
\* returned: a step that puts a remote call in flight is the step in which a
\* mutation returns its result, or a callback that runs after it.
C11_LocalFirst ==
  [][(\/ Len(users') > Len(users)
      \/ Len(detached') > Len(detached)
      \/ SumLen(passes') > SumLen(passes))
     => last'.op \notin {"createPromptGroup:await", "deleteGroup:await"}]_vars

\* C12: when deleteGroup(g) returns and g was in the cache, whatever the
\* remote store did (not configured, deleted, reported failure, threw), the
\* cache holds no group with g's id and none of g's versions.
C12_GroupGone ==
  [][(last'.op = "deleteGroup" /\ HasGroup(Cache, last'.id))
     => LET g == GetGroupById(storage, last'.id)
            after == GetAllGroups(storage')
        IN /\ ~HasGroup(after, last'.id)
           /\ \A j \in DOMAIN g.versions :
                OwnerIndexOf(after, g.versions[j].id) = 0]_vars

\* deleteGroup has just removed a group from the cache after the remote
\* delete failed, and left another group there
C12_Witness ==
  /\ last.op = "deleteGroup"
  /\ last.status = "fallback"
  /\ last.ok
  /\ storage # <<>>

\* what createPromptGroup(name, content) writes and returns when the remote
\* store is not configured (storage.ts 323-356)
CreatedLocally(name, content) ==
  /\ storage' = LocalStorageSet(Append(GetAllGroups(storage),
                                       LocalGroup(nextId, nextId + 1, name, content)))
  /\ last'.ok
  /\ last'.ret = nextId

\* what deleteGroup(groupId) writes and returns when the remote store is not
\* configured (storage.ts 703-706)
DeletedLocally(groupId) ==
  /\ storage' = LocalStorageSet(RemoveLocally(groupId))
  /\ last'.ok = HasGroup(Cache, groupId)

\* what addVersion(groupId, content, {status}) writes and returns when the
\* remote store is not configured (storage.ts 360-411)
AddedLocally(groupId, content, status) ==
  LET gi == GroupIndexOf(Cache, groupId)
  IN IF gi = 0
       THEN storage' = storage /\ ~last'.ok
       ELSE /\ storage' = LocalStorageSet(
                   [Cache EXCEPT ![gi] = AddVersionToGroup(@, nextId, content, status)])
            /\ last'.ok
            /\ last'.ret = nextId

\* what setVersionStatus(versionId, status) writes and returns when the
\* remote store is not configured (storage.ts 584-623)
StatusSetLocally(versionId, status) ==
  LET i == OwnerIndexOf(Cache, versionId)
  IN IF i = 0
       THEN storage' = storage /\ ~last'.ok
       ELSE /\ storage' = LocalStorageSet(
                   [Cache EXCEPT ![i] = SetStatusInGroup(
                                          @, VersionIndexOf(Cache[i], versionId), status)])
            /\ last'.ok

\* what updateGroup(groupId, {name}) writes and returns when the remote store
\* is not configured (storage.ts 710-738)
GroupUpdatedLocally(groupId, name) ==
  LET gi == GroupIndexOf(Cache, groupId)
  IN IF gi = 0
       THEN storage' = storage /\ ~last'.ok
       ELSE /\ storage' = LocalStorageSet([Cache EXCEPT ![gi].name = name])
            /\ last'.ok

\* what updateVersion(versionId, {name}) writes and returns when the remote
\* store is not configured (storage.ts 741-794)
VersionUpdatedLocally(versionId, name) ==
  LET i == OwnerIndexOf(Cache, versionId)
  IN IF i = 0
       THEN storage' = storage /\ ~last'.ok
       ELSE /\ storage' = LocalStorageSet(
                   [Cache EXCEPT ![i].versions[VersionIndexOf(Cache[i], versionId)].name
                                   = name])
            /\ last'.ok

\* C13: with the remote store configured, a mutation that returns after its
\* remote call failed (createPromptGroup, deleteGroup) or before its remote
\* calls have an outcome (addVersion, setVersionStatus, updateGroup,
\* updateVersion) returns the result, and leaves the cache, that the same
\* call gives on the same cache when the remote store is not configured.
C13_FailureHidden ==
  [][configured =>
       /\ (last'.op = "createPromptGroup" /\ last'.status = "local")
            => \E u \in DOMAIN users :
                 /\ users[u].op = "createPromptGroup"
                 /\ users[u].pc = "resume"
                 /\ ~users[u].ok
                 /\ users' = RemoveAt(users, u)
                 /\ CreatedLocally(users[u].name, users[u].content)
       /\ (last'.op = "deleteGroup" /\ last'.status = "fallback")
            => DeletedLocally(last'.id)
       /\ last'.op = "addVersion"
            => \E content \in Contents : AddedLocally(last'.id, content, last'.status)
       /\ last'.op = "setVersionStatus"
            => StatusSetLocally(last'.id, last'.status)
       /\ last'.op = "updateGroup"
            => GroupUpdatedLocally(last'.id, last'.status)
       /\ last'.op = "updateVersion"
            => VersionUpdatedLocally(last'.id, last'.status)]_vars

\* createPromptGroup has returned a group made locally after the remote
\* createGroup failed
C13_Witness ==
  /\ configured
  /\ last.op = "createPromptGroup"
  /\ last.status = "local"
  /\ last.ok

\* C14: every group of the cache has at least one version, in every state,
\* those written by a pull or by a callback of a push included.
C14_NeverEmpty ==
  \A i \in DOMAIN Cache : Len(Cache[i].versions) >= 1

\* C15: every group of the cache that has a version has exactly one version
\* with status current.
C15_ExactlyOneCurrent ==
  \A i \in DOMAIN Cache :
    Len(Cache[i].versions) >= 1 => CountStatus(Cache[i], "current") = 1

\* C15 as the code has it: createPromptGroup and setVersionStatus to current
\* leave the group with exactly one current version, and addVersion and
\* deleteVersion keep a group that had exactly one at exactly one.  (A
\* setVersionStatus to draft or to production applied to the current version
\* leaves none.)
C15_CurrentKept ==
  [][/\ (last'.op = "createPromptGroup" /\ last'.ok)
          => CountStatus(GetGroupById(storage', last'.ret), "current") = 1
     /\ (last'.op = "setVersionStatus" /\ last'.ok /\ last'.status = "current")
          => LET after == GetAllGroups(storage')
             IN CountStatus(after[OwnerIndexOf(after, last'.id)], "current") = 1
     /\ (/\ last'.op = "addVersion"
         /\ last'.ok
         /\ CountStatus(GetGroupById(storage, last'.id), "current") = 1)
          => CountStatus(GetGroupById(storage', last'.id), "current") = 1
     /\ (/\ last'.op = "deleteVersion"
         /\ last'.ok
         /\ CountStatus(GetGroupById(storage, last'.ret), "current") = 1)
          => CountStatus(GetGroupById(storage', last'.ret), "current") = 1]_vars

\* setVersionStatus has just made current a version of a group whose other
\* version was the current one
C15_Witness ==
  /\ last.op = "setVersionStatus"
  /\ last.ok
  /\ last.status = "current"
  /\ OwnerIndexOf(Cache, last.id) # 0
  /\ Len(OwnerOfLast.versions) = 2
  /\ WithStatus(OwnerOfLast, "draft") # {}
  /\ \E j \in WithStatus(OwnerOfLast, "current") : OwnerOfLast.versions[j].id = last.id

\* deleteGroup(groupId) has been called and has not returned
Deleting(groupId) ==
  \E u \in DOMAIN users : users[u].op = "deleteGroup" /\ users[u].groupId = groupId

\* the ids of the groups of the cache that createPromptGroup made on its local
\* path: those that carry an id of generateId(), not the remote store's
LocalIds ==
  {Cache[i].id : i \in {j \in DOMAIN Cache : Cache[j].supabase_id # Cache[j].id}}

\* C16 for every step: no step other than a deleteGroup of that id takes the
\* id of a group createPromptGroup has returned out of the cache.
C16_IdKept ==
  [][\A groupId \in LocalIds :
       (/\ ~Deleting(groupId)
        /\ ~(last'.op \in {"deleteGroup", "deleteGroup:await"} /\ last'.id = groupId))
         => HasGroup(GetAllGroups(storage'), groupId)]_vars

\* C16, in the case it names: when the push of a group createPromptGroup
\* returned has succeeded, so that the group carries its remote id, and a pull
\* that selected the group's remote row completes, getGroupById still finds
\* the group under the id it was returned with.
C16_AfterPush ==
  [][\A groupId \in LocalIds :
       \A i \in DOMAIN pulls :
         (/\ pulls[i].pc = "then"
          /\ pulls' = RemoveAt(pulls, i)
          /\ storage' = LocalStorageSet(pulls[i].result)
          /\ HasGroup(pulls[i].result, GetGroupById(storage, groupId).supabase_id))
           => HasGroup(GetAllGroups(storage'), groupId)]_vars

\* C17: createPromptGroup and addVersion reject empty content before they
\* write anything, so that no version of the cache has empty content.
C17_NoEmptyContent ==
  \A i \in DOMAIN Cache :
    \A j \in DOMAIN Cache[i].versions : Cache[i].versions[j].content # ""

\* C18: no push pass has in flight a remote create-version call for a version
\* that is a row of the remote store already, as the versions of a group made
\* on the remote-first path or loaded by a pull are.
C18_OnlyNewVersion ==
  \A p \in DOMAIN passes :
    \A c \in DOMAIN passes[p].calls :
      LET call == passes[p].calls[c]
      IN call.kind \in {"addVersion", "addExtra"}
           => ~HasRow(rVersions, passes[p].groups[call.gi].versions[call.vi].id)

\* C19: when the callback of a successful remote createGroup of a push pass
\* writes the cache, the group it created has its remote id recorded and the
\* id of its initial version among its persisted synced version ids.
C19_InitialSynced ==
  [][\A p \in DOMAIN passes :
       \A c \in DOMAIN passes[p].calls :
         LET call == passes[p].calls[c]
             g == passes[p].groups[call.gi]
             after == GetAllGroups(storage')
         IN (/\ call.kind = "createGroup"
             /\ call.pc = "then"
             /\ passes' # passes
             /\ storage' = LocalStorageSet(
                              [passes[p].groups EXCEPT ![call.gi].supabase_id = call.target]))
              => /\ after[call.gi].supabase_id = call.target
                 /\ IsSynced(after[call.gi], g.versions[1].id)]_vars

\* C20: a version id that is among a group's persisted synced version ids is
\* still among them after every step that is not the completion of a pull and
\* that leaves the version in the group, whichever pass's callback the step is.
C20_MarkKept ==
  [][Len(pulls') >= Len(pulls) =>
       \A i \in DOMAIN Cache :
         \A k \in DOMAIN Cache[i].synced.ids :
           LET versionId == Cache[i].synced.ids[k]
               after == GetAllGroups(storage')
               gi == GroupIndexOf(after, Cache[i].id)
           IN (/\ IsSynced(Cache[i], versionId)
               /\ gi # 0
               /\ VersionIndexOf(after[gi], versionId) # 0)
                => IsSynced(after[gi], versionId)]_vars

\* what the local mutations decide of the cache: its groups, their names and
\* their versions, without the bookkeeping of the push (supabase_id,
\* _syncedVersionIds)
Content(stored) ==
  [i \in DOMAIN stored |->
     [id |-> stored[i].id, name |-> stored[i].name, versions |-> stored[i].versions,
      currentVersionId |-> stored[i].currentVersionId,
      productionVersionId |-> stored[i].productionVersionId]]

\* C21: pulls apart, a callback of a push pass leaves in the cache every group
\* and version the local mutations added, and every status, name and deletion
\* they applied: it changes nothing but the remote id and the synced ids.
C21_CallbackKeeps ==
  [][(last'.op = "background" /\ Len(pulls') >= Len(pulls))
     => Content(storage') = Content(storage)]_vars

Quiescent ==
  /\ pulls = <<>>
  /\ passes = <<>>
  /\ detached = <<>>
  /\ users = <<>>

\* C24: with every remote call succeeding, once setVersionStatus(v, s) has
\* returned true and every push and pull in flight has completed with no
\* other mutation since, v has status s in the cache.
C24_StatusSettled ==
  (/\ Quiescent
   /\ returned.op = "setVersionStatus"
   /\ returned.ok)
  => \E i \in DOMAIN Cache :
       \E j \in WithStatus(Cache[i], returned.status) :
         Cache[i].versions[j].id = returned.id

\* C25: with every remote call succeeding, once deleteVersion(v) has returned
\* true and every push and pull in flight has completed with no other
\* mutation since, v is not in the cache.
C25_DeletionSettled ==
  (/\ Quiescent
   /\ returned.op = "deleteVersion"
   /\ returned.ok)
  => OwnerIndexOf(Cache, returned.id) = 0

\* the rows of prompt_versions that hold the versions of g
RowsOf(g) ==
  [j \in DOMAIN g.versions |->
     RemoteVersion(g.versions[j].id, g.id, g.versions[j].name, g.versions[j].content,
                   g.versions[j].status, g.versions[j].version)]

\* supabasePromptService.setVersionStatus(id, status) run to its end on rows
\* (part_004 253-286)
RemoteSetStatus(rows, groupId, id, status) ==
  UpdateRowStatus(IF status \in {"current", "production"}
                    THEN ClearOtherRows(rows, groupId, id)
                    ELSE rows,
                  id, status)

\* C26: the remote setVersionStatus changes statuses as the local one does: on
\* remote rows equal to the versions of a group of the cache, the same call
\* leaves every version with the status the local call leaves it with.
C26_SameTransition ==
  \A i \in DOMAIN Cache :
    \A j \in DOMAIN Cache[i].versions :
      \A status \in Statuses :
        LET local == SetStatusInGroup(Cache[i], j, status).versions
            rows == RemoteSetStatus(RowsOf(Cache[i]), Cache[i].id,
                                    Cache[i].versions[j].id, status)
        IN \A k \in DOMAIN local : local[k].status = rows[k].status

\* C27: once the push of a group that had no remote id and several versions
\* has run to its end, every remote call of it having succeeded, the remote
\* group has one row per version of the group, in the order of the versions,
\* each with the status of its version.
C27_RemoteMirrors ==
  (Quiescent /\ returned.op \in {"addVersion", "setVersionStatus"})
  => \A i \in DOMAIN Cache :
       LET g == Cache[i]
           rows == RowsOfGroup(rVersions, g.supabase_id)
       IN (g.supabase_id # NoId /\ Len(g.versions) >= 2)
            => /\ Len(rows) = Len(g.versions)
               /\ \A k \in DOMAIN rows :
                    /\ rows[k].content = g.versions[k].content
                    /\ rows[k].status = g.versions[k].status
                    /\ k >= 2 => rows[k].name = g.versions[k].name

\* C28: the step in which a mutation returns with success starts a push pass
\* over the groups of the cache it leaves, whenever those groups have
\* something to push.
C28_PassFollows ==
  [][(/\ configured
      /\ last'.op \in Mutations
      /\ last'.ok
      /\ Take(CallsFrom(GetAllGroups(storage'), 1),
              MaxCalls - CallsInFlight(passes, detached, users)) # <<>>)
     => Len(passes') > Len(passes)]_vars

\* the ids a group holds as synced
SyncedIds(g) == IF g.synced.kind \in {"set", "array"} THEN Range(g.synced.ids) ELSE {}

\* every <<group id, version id>> marked synced in the groups array stored
MarksIn(stored) ==
  UNION {{<<stored[i].id, v>> : v \in SyncedIds(stored[i])} : i \in DOMAIN stored}

\* every <<group id, version id>> marked synced, in the cache or in the groups
\* array of a push pass
MarksOf(stored, ps) ==
  MarksIn(stored) \cup UNION {MarksIn(ps[p].groups) : p \in DOMAIN ps}

\* the <<group id, version id>> of the remote create-version calls of a pass
\* whose result is a row, on its way to the callback
SucceededIn(pass) ==
  {<<pass.groups[pass.calls[c].gi].id,
     pass.groups[pass.calls[c].gi].versions[pass.calls[c].vi].id>> :
     c \in {k \in DOMAIN pass.calls : /\ pass.calls[k].kind = "addVersion"
                                     /\ pass.calls[k].pc = "then"
                                     /\ pass.calls[k].rid # NoId}}

Succeeded(ps) == UNION {SucceededIn(ps[p]) : p \in DOMAIN ps}

C30_RemoteGone ==
  [][(/\ last'.op = "deleteGroup"
      /\ last'.status = "remote"
      /\ HasGroup(Cache, last'.id))
     => LET g == GetGroupById(storage, last'.id)
        IN (g.supabase_id # NoId /\ g.supabase_id # g.id)
             => /\ ~HasRow(rGroups', g.supabase_id)
                /\ RowsOfGroup(rVersions', g.supabase_id) = <<>>]_vars

\* the remote rows the push of group 1 created are as it created them: the
\* group neither deleted nor renamed since
RacedRowsKept ==
  /\ RacedGroupRow \in Range(rGroups)
  /\ \E i \in DOMAIN rVersions :
       /\ rVersions[i].id = RacedVersionRow.id
       /\ rVersions[i].group_id = RacedGroupRow.id
       /\ rVersions[i].content = RacedVersionRow.content

\* groups has the group that was pushed, by its name and its initial content
PresentAgain(groups) ==
  \E i \in DOMAIN groups :
    /\ groups[i].supabase_id = RacedGroupRow.id
    /\ groups[i].name = "G"
    /\ \E j \in DOMAIN groups[i].versions : groups[i].versions[j].content = "p"

\* C23: a pull that completed while the push of a local-only group was in
\* flight has left the group absent from the cache; once the push has
\* succeeded, every pull that completes after it leaves a group with the same
\* name and initial content in the cache.
C23_PulledAgain ==
  [][(last'.op = "promptGroupsUpdated" /\ RacedRowsKept')
     => PresentAgain(GetAllGroups(storage'))]_vars

C23_Witness ==
  /\ last.op = "promptGroupsUpdated"
  /\ RacedRowsKept
  /\ PresentAgain(Cache)
  /\ ~HasGroup(Cache, 1)

\* C31: deleteGroup(id) returns true only when it removed a group from the
\* cache: with no group of that id in the cache it returns false, whether the
\* remote store is not configured, deleted, or failed.
C31_TrueOnlyIfRemoved ==
  [][(last'.op = "deleteGroup" /\ last'.ok)
     => /\ HasGroup(Cache, last'.id)
        /\ Len(GetAllGroups(storage')) < Len(Cache)]_vars

\* the groups of the cache before and after a step differ in group i at most
OnlyGroupChanged(i) ==
  /\ Len(storage') = Len(storage)
  /\ \A k \in DOMAIN storage : k # i => Content(storage')[k] = Content(storage)[k]

\* C32: setVersionStatus(v, 'production') gives v the status production,
\* forces the other production versions of v's group to draft, sets the
\* group's productionVersionId to v, and changes nothing else: not the
\* group's currentVersionId, not a version that is current, not another group.
C32_ProductionFrame ==
  [][(last'.op = "setVersionStatus" /\ last'.ok /\ last'.status = "production")
     => LET i == OwnerIndexOf(Cache, last'.id)
            before == Cache[i]
            after == GetAllGroups(storage')[i]
            vi == VersionIndexOf(before, last'.id)
        IN /\ OnlyGroupChanged(i)
           /\ after.id = before.id
           /\ after.name = before.name
           /\ after.productionVersionId = last'.id
           /\ after.currentVersionId = before.currentVersionId
           /\ DOMAIN after.versions = DOMAIN before.versions
           /\ \A j \in DOMAIN before.versions :
                after.versions[j] =
                  IF j = vi \/ before.versions[j].status = "production"
                    THEN [before.versions[j] EXCEPT
                            !.status = IF j = vi THEN "production" ELSE "draft"]
                    ELSE before.versions[j]]_vars

\* setVersionStatus has just made production a version of a group whose
\* current version is another one
C32_Witness ==
  /\ last.op = "setVersionStatus"
  /\ last.ok
  /\ last.status = "production"
  /\ OwnerIndexOf(Cache, last.id) # 0
  /\ LET g == Cache[OwnerIndexOf(Cache, last.id)]
     IN /\ g.productionVersionId = last.id
        /\ g.currentVersionId # last.id
        /\ \E j \in WithStatus(g, "current") : g.versions[j].id = g.currentVersionId
        /\ \E j \in WithStatus(g, "draft") : g.versions[j].id # last.id

\* C33: setVersionStatus(v, 'draft') succeeds for every version in the cache,
\* changes the status of v and nothing else, and leaves the group's
\* currentVersionId and productionVersionId as they were, also when one of
\* them is v.
C33_DraftFrame ==
  [][(last'.op = "setVersionStatus" /\ last'.status = "draft"
        /\ OwnerIndexOf(Cache, last'.id) # 0)
     => LET i == OwnerIndexOf(Cache, last'.id)
            before == Cache[i]
            after == GetAllGroups(storage')[i]
            vi == VersionIndexOf(before, last'.id)
        IN /\ last'.ok
           /\ OnlyGroupChanged(i)
           /\ after.id = before.id
           /\ after.name = before.name
           /\ after.currentVersionId = before.currentVersionId
           /\ after.productionVersionId = before.productionVersionId
           /\ after.versions = [before.versions EXCEPT ![vi].status = "draft"]]_vars

\* setVersionStatus has just made a draft of the version the group's
\* productionVersionId names, in a group with another version
C33_Witness ==
  /\ last.op = "setVersionStatus"
  /\ last.ok
  /\ last.status = "draft"
  /\ OwnerIndexOf(Cache, last.id) # 0
  /\ LET g == Cache[OwnerIndexOf(Cache, last.id)]
     IN /\ g.productionVersionId = last.id
        /\ g.versions[VersionIndexOf(g, last.id)].status = "draft"
        /\ WithStatus(g, "production") = {}
        /\ Len(g.versions) >= 2

\* C34: when deleteVersion(v) removes a production version from a group of
\* two versions or more, the group's productionVersionId is undefined
\* afterwards, the remaining versions are as they were (none is given the
\* status production), and currentVersionId is unchanged.
C34_ProductionCleared ==
  [][(last'.op = "deleteVersion" /\ last'.ok /\ last'.status = "production")
     => LET i == OwnerIndexOf(Cache, last'.id)
            before == Cache[i]
            after == GetAllGroups(storage')[i]
            vi == VersionIndexOf(before, last'.id)
        IN /\ Len(before.versions) >= 2
           /\ OnlyGroupChanged(i)
           /\ after.productionVersionId = NoId
           /\ after.currentVersionId = before.currentVersionId
           /\ after.versions = RemoveAt(before.versions, vi)]_vars

\* deleteVersion has just removed the production version of a group whose
\* current version remains
C34_Witness ==
  /\ last.op = "deleteVersion"
  /\ last.ok
  /\ last.status = "production"
  /\ HasGroup(Cache, last.ret)
  /\ LET g == GetGroupById(storage, last.ret)
     IN /\ g.productionVersionId = NoId
        /\ WithStatus(g, "production") = {}
        /\ \E j \in WithStatus(g, "current") : g.versions[j].id = g.currentVersionId

\* C35: with the remote store not configured (no pull), the number addVersion
\* gives a new version is greater than the number of every version created
\* earlier in the group, also of one that deleteVersion has removed since: here
\* of the version the preceding mutation deleted from the group.
C35_NeverReused ==
  [][(/\ ~configured
      /\ last'.op = "addVersion"
      /\ last'.ok
      /\ returned.op = "deleteVersion"
      /\ returned.ok
      /\ returned.ret = last'.id)
     => last'.num > returned.num]_vars

VersionIdsOf(g) == {g.versions[j].id : j \in DOMAIN g.versions}

\* C37: in every state the local operations reach (remote store not
\* configured), a group's currentVersionId, and its productionVersionId when
\* defined, is the id of a version the group contains.
C37_NoDangling ==
  ~configured
  => \A i \in DOMAIN Cache :
       /\ Cache[i].currentVersionId \in VersionIdsOf(Cache[i])
       /\ Cache[i].productionVersionId # NoId
            => Cache[i].productionVersionId \in VersionIdsOf(Cache[i])

\* C38: when a pull completes, every version it wrote to the cache has the
\* version_number of its remote row as its number, in whatever order the rows
\* were fetched.
C38_NumbersKept ==
  [][last'.op = "promptGroupsUpdated"
     => LET after == GetAllGroups(storage')
        IN \A i \in DOMAIN after : \A j \in DOMAIN after[i].versions :
             \A r \in DOMAIN rVersions :
               rVersions[r].id = after[i].versions[j].id
                 => after[i].versions[j].version = rVersions[r].version_number]_vars

\* C39: the version rows the concurrent remote addVersion calls of a push
\* pass create for one group have pairwise distinct version_number values,
\* however the selections and insertions of the calls interleave.
C39_DistinctNumbers ==
  \A a \in DOMAIN rVersions : \A b \in DOMAIN rVersions :
    (a # b /\ rVersions[a].group_id = rVersions[b].group_id)
      => rVersions[a].version_number # rVersions[b].version_number

\* a pull whose fetch had not completed leaves the pulls in flight in this step
FetchFails ==
  \E i \in DOMAIN pulls :
    /\ pulls[i].pc \in {"groups", "versions"}
    /\ pulls' = RemoveAt(pulls, i)

\* C40: when the remote fetch of a pull fails, the failure is caught by the
\* pull itself: the cache is as it was, promptGroupsUpdated is not dispatched,
\* and the getAllGroups() that started the pull has returned the groups of
\* the cache, which its caller still holds.
C40_FetchFailureHidden ==
  [][/\ FetchFails
          => /\ storage' = storage
             /\ last' = Caught
             /\ memory' = memory
             /\ users' = users
             /\ passes' = passes
     /\ last'.op = "getAllGroups" => memory' = Cache]_vars

\* a pull has just failed after the read that started it returned the group
\* with the version added before
C40_Witness ==
  /\ last = Caught
  /\ pulls = <<>>
  /\ memory = Cache
  /\ \E i \in DOMAIN memory : Len(memory[i].versions) >= 2

====
